---- MODULE Spec2Model ----
(***************************************************************************)
(* werun: provider registry, fan-out search orchestrator and launcher      *)
(* window routing.                                                         *)
(*                                                                         *)
(* Strings are sequences of one-character strings, so that prefix and      *)
(* substring tests are computed character by character as the Rust code    *)
(* computes them.                                                          *)
(*                                                                         *)
(* Spec    : the PluginManager API (register, initialize_all, search_all,  *)
(*           execute) called in any order by any caller.                   *)
(* SpecUI  : the LauncherWindow: construction (init_plugins followed by    *)
(*           initialize_all) and then the list handlers.                   *)
(***************************************************************************)
EXTENDS Integers, Sequences, FiniteSets, TLC

\* ------------------------------------------------------------------ bounds
\* Largest number of providers the registry holds in the model.
MaxPlugins == 3
\* search_all is called with every limit in 0..MaxLimit.
MaxLimit == 3
\* Largest number of providers a launcher window registers in the model.
MaxWindowPlugins == 2

\* Clipboard entries and added custom commands a provider object is given.
MaxEntries == 2
MaxCommands == 1
\* Milliseconds on the clock.
MaxTime == 1
\* Characters in a query and in a target handed to fuzzy_match.
MaxQueryLen == 2
MaxTargetLen == 3

\* ----------------------------------------------------------------- strings
Range(s) == {s[i] : i \in 1..Len(s)}

\* str::starts_with
StartsWith(s, p) == Len(p) <= Len(s) /\ SubSeq(s, 1, Len(p)) = p

\* str::contains (the empty pattern is contained in every string)
Contains(s, p) ==
    \E i \in 0..(Len(s) - Len(p)) : SubSeq(s, i + 1, i + Len(p)) = p

\* char::to_lowercase on the letters the model uses.  "SIGMA", "sigma" and
\* "final_sigma" stand for the one-character strings U+03A3, U+03C3 and
\* U+03C2.  A letter that lowers to several characters is in LowerChars.
LowerChar(c) ==
    CASE c = "A" -> "a"
      [] c = "B" -> "b"
      [] c = "C" -> "c"
      [] c = "G" -> "g"
      [] c = "N" -> "n"
      [] c = "SIGMA" -> "sigma"
      [] OTHER -> c

\* The characters with the Unicode property Cased, among those of the
\* model; none of the model's characters is Case_Ignorable.
Cased(c) ==
    c \notin {" ", "/", ":", ">", "_", "+", "-", "*", ".", "0", "1", "2", "3",
              "4", "5", "6", "7", "8", "9"}

\* The Final_Sigma test of str::to_lowercase: a capital sigma that follows
\* a cased letter and is not followed by one.
is_word_final(s, i) ==
    /\ i > 1 /\ Cased(s[i - 1])
    /\ ~(i < Len(s) /\ Cased(s[i + 1]))

\* char::to_lowercase as the characters it yields: "DOTTED_I" stands for
\* U+0130, which lowers to "i" followed by the combining dot above U+0307
\* ("dot_above"); every other letter of the model lowers to one character.
LowerChars(c) ==
    IF c = "DOTTED_I" THEN <<"i", "dot_above">> ELSE <<LowerChar(c)>>

\* str::to_lowercase from the i-th character of s on.
RECURSIVE to_lowercase_from(_, _)
to_lowercase_from(s, i) ==
    IF i > Len(s) THEN <<>>
    ELSE (IF s[i] = "SIGMA" /\ is_word_final(s, i) THEN <<"final_sigma">>
          ELSE LowerChars(s[i])) \o to_lowercase_from(s, i + 1)

\* str::to_lowercase: every character by char::to_lowercase, but a capital
\* sigma at the end of a word becomes the final sigma.
to_lowercase(s) == to_lowercase_from(s, 1)

\* The length of a character in UTF-8.
len_utf8(c) ==
    IF c \in {"SIGMA", "sigma", "final_sigma", "DOTTED_I", "dot_above"}
    THEN 2 ELSE 1

\* str::len: the length in bytes.
RECURSIVE len(_)
len(s) == IF s = <<>> THEN 0 ELSE len_utf8(Head(s)) + len(Tail(s))

Min(a, b) == IF a < b THEN a ELSE b

\* Vec::truncate
Truncate(v, n) == SubSeq(v, 1, Min(n, Len(v)))

\* str::splitn(2, ' '): the text before the first space and the text after
\* it (empty when there is no space).
SplitAtSpace(s) ==
    LET sp == {i \in 1..Len(s) : s[i] = " "}
    IN IF sp = {} THEN <<s, <<>>>>
       ELSE LET i == CHOOSE j \in sp : \A k \in sp : j <= k
            IN <<SubSeq(s, 1, i - 1), SubSeq(s, i + 1, Len(s))>>

\* str::split(' '): the words between the spaces, empty ones included.
RECURSIVE SplitSpaces(_)
SplitSpaces(s) ==
    IF " " \notin Range(s) THEN <<s>>
    ELSE <<SplitAtSpace(s)[1]>> \o SplitSpaces(SplitAtSpace(s)[2])

\* [String]::join(" ")
RECURSIVE JoinSpaces(_)
JoinSpaces(words) ==
    IF words = <<>> THEN <<>>
    ELSE IF Len(words) = 1 THEN words[1]
    ELSE words[1] \o <<" ">> \o JoinSpaces(Tail(words))

\* ------------------------------------------------------------ utils::fuzzy
\* u32 arithmetic.  A u32 is written as two 16-bit halves, hi * 2^16 + lo.
\* With overflow checks (the debug profile) an overflow panics; without
\* them (the release profile) the value wraps.
U16 == 65536

\* The u32 of a number below 2^31, not panicked.
NoPanic(n) == [hi |-> n \div U16, lo |-> n % U16, panic |-> FALSE]

Panicked == [hi |-> 0, lo |-> 0, panic |-> TRUE]

\* a + b, for a number b below 2^30.
add_u32(a, b, checks) ==
    LET lo == a.lo + b
        hi == a.hi + (lo \div U16)
    IN IF a.panic THEN a
       ELSE IF hi < U16 THEN [hi |-> hi, lo |-> lo % U16, panic |-> FALSE]
       ELSE IF checks THEN Panicked
       ELSE [hi |-> hi % U16, lo |-> lo % U16, panic |-> FALSE]

\* a - b, for a number b below 2^30.
sub_u32(a, b, checks) ==
    LET lo == a.lo - (b % U16)
        borrow == IF lo < 0 THEN 1 ELSE 0
        hi == a.hi - (b \div U16) - borrow
    IN IF a.panic THEN a
       ELSE IF hi >= 0
       THEN [hi |-> hi, lo |-> lo + borrow * U16, panic |-> FALSE]
       ELSE IF checks THEN Panicked
       ELSE [hi |-> hi + U16, lo |-> lo + borrow * U16, panic |-> FALSE]

\* calculate_contain_score; target contains query, so length_diff >= 0.
calculate_contain_score(query, target, checks) ==
    LET base == 100 + (IF StartsWith(target, query) THEN 50 ELSE 0)
                    + (IF Contains(target, <<" ">> \o query) THEN 30 ELSE 0)
        length_diff == len(target) - len(query)
    IN sub_u32(NoPanic(base), length_diff * 2, checks)

\* fuzzy_char_match: the characters of query occur in target in order.
RECURSIVE fuzzy_char_match(_, _)
fuzzy_char_match(query, target) ==
    IF target = <<>> THEN query = <<>>
    ELSE IF query = <<>> THEN TRUE
    ELSE IF Head(target) = Head(query)
    THEN fuzzy_char_match(Tail(query), Tail(target))
    ELSE fuzzy_char_match(query, Tail(target))

\* The loop of count_consecutive_matches from the k-th character of target.
RECURSIVE count_consecutive_loop(_, _, _, _, _, _)
count_consecutive_loop(query, target, k, query_idx, current, max) ==
    IF k > Len(target) THEN (IF max > current THEN max ELSE current)
    ELSE IF query_idx < Len(query) /\ target[k] = query[query_idx + 1]
    THEN count_consecutive_loop(query, target, k + 1, query_idx + 1,
                                current + 1, max)
    ELSE count_consecutive_loop(query, target, k + 1, query_idx, 0,
                                IF max > current THEN max ELSE current)

count_consecutive_matches(query, target) ==
    count_consecutive_loop(query, target, 1, 0, 0, 0)

\* find_first_match_position: the byte offset of the first occurrence of
\* the first character of query, target.len() when there is none.
find_first_match_position(query, target) ==
    IF query = <<>> THEN 0
    ELSE LET at == {i \in 1..Len(target) : target[i] = Head(query)}
         IN IF at = {} THEN len(target)
            ELSE len(SubSeq(target, 1, (CHOOSE i \in at : \A j \in at : i <= j) - 1))

\* calculate_fuzzy_score.  (ratio * 20.0) as u32 is the whole part of
\* 20 * query.len() / target.len(); the f32 rounding does not change it
\* for lengths below 200.
calculate_fuzzy_score(query, target, checks) ==
    LET bonus == add_u32(NoPanic(50),
                         count_consecutive_matches(query, target) * 10, checks)
        placed == sub_u32(bonus, find_first_match_position(query, target) * 5,
                          checks)
    IN add_u32(placed, (20 * len(query)) \div len(target), checks)

\* What fuzzy_match returns: (matched, score), or a panic.
FuzzyResult(matched, score) ==
    [matched |-> matched /\ ~score.panic,
     score |-> [hi |-> score.hi, lo |-> score.lo],
     panic |-> score.panic]

\* fuzzy_match
fuzzy_match(query0, target0, checks) ==
    LET query == to_lowercase(query0)
        target == to_lowercase(target0)
    IN IF query = <<>> THEN FuzzyResult(TRUE, NoPanic(0))
       ELSE IF Contains(target, query)
       THEN FuzzyResult(TRUE, calculate_contain_score(query, target, checks))
       ELSE IF fuzzy_char_match(query, target)
       THEN FuzzyResult(TRUE, calculate_fuzzy_score(query, target, checks))
       ELSE FuzzyResult(FALSE, NoPanic(0))

\* The loop of highlight_matches from the k-th pair of the zip of the
\* lowered target with the target; zip ends with the shorter of the two.
RECURSIVE highlight_loop(_, _, _, _, _)
highlight_loop(query_lower, target_lower, target, k, qi) ==
    IF k > Min(Len(target_lower), Len(target)) THEN <<>>
    ELSE IF qi <= Len(query_lower) /\ target_lower[k] = query_lower[qi]
    THEN <<"[", target[k], "]">>
             \o highlight_loop(query_lower, target_lower, target, k + 1, qi + 1)
    ELSE <<target[k]>>
             \o highlight_loop(query_lower, target_lower, target, k + 1, qi)

\* highlight_matches pushing the lowered character instead of the original.
highlight_matches_lowered(query, target) ==
    IF query = <<>> THEN target
    ELSE highlight_loop(to_lowercase(query), to_lowercase(target),
                        to_lowercase(target), 1, 1)

\* highlight_matches
highlight_matches(query, target) ==
    IF query = <<>> THEN target
    ELSE highlight_loop(to_lowercase(query), to_lowercase(target), target, 1, 1)

\* ------------------------------------------------------------ result model
\* ActionData: a tag and its payload (path, command, text, url or data);
\* Custom carries the name of a plugin as well.
Action(tag, data) == [tag |-> tag, plugin |-> "", data |-> data]
CustomAction(plugin, data) == [tag |-> "Custom", plugin |-> plugin, data |-> data]

\* SearchResult.  prov and pos are bookkeeping that no operation reads: the
\* registry index of the provider whose search produced the result and the
\* position of the result in that provider's output (0, 0 for a result that
\* the caller built itself).
Result(id, score, action) ==
    [id |-> id, score |-> score, action |-> action, prov |-> 0, pos |-> 0]

Colon == <<":">>
PluginSentinel == <<"_", "_", "p", "l", "u", "g", "i", "n", "_", "_", ":">>

\* ---------------------------------------------------------------- providers
AppLauncherId == <<"a", "p", "p", "_", "l", "a", "u", "n", "c", "h", "e", "r">>
CalculatorId == <<"c", "a", "l", "c", "u", "l", "a", "t", "o", "r">>
SentinelId == <<"_", "_", "p", "l", "u", "g", "i", "n", "_", "_">>

\* Contents of the start menu that scan_start_menu finds.
StartMenu ==
    << [name |-> <<"A", "b">>, path |-> <<"p">>],
       [name |-> <<"a", "c">>, path |-> <<"q">>] >>

\* A provider object.  kind selects the implementation of the Plugin trait;
\* name is Plugin::name, which tells the objects apart; apps is the private
\* index of the app launcher, history the entries of the clipboard plugin,
\* commands the list of the custom commands plugin; hits, initOk, searchOk
\* and execOk script a provider that is not one of the shipped ones.
Provider(kind, name, id, enabled, hits, initOk, searchOk, execOk) ==
    [kind |-> kind, name |-> name, id |-> id, enabled |-> enabled,
     apps |-> <<>>, history |-> <<>>, commands |-> <<>>,
     hits |-> hits, initOk |-> initOk, searchOk |-> searchOk,
     execOk |-> execOk]

\* AppLauncherPlugin::new
AppLauncherPlugin ==
    Provider("app_launcher", "AppLauncher", AppLauncherId, TRUE, <<>>, TRUE, TRUE, TRUE)

\* CalculatorPlugin::new
CalculatorPlugin ==
    Provider("calculator", "Calculator", CalculatorId, TRUE, <<>>, TRUE, TRUE, TRUE)

ExecCmd(c) == Action("ExecuteCommand", c)

\* Other implementations of the Plugin trait.
PluginA ==
    Provider("stub", "A", <<"a">>, TRUE,
             << Result(<<"a", ":", "x">>, 100, ExecCmd(<<"x">>)),
                Result(<<"a", ":", "z">>, 50, ExecCmd(<<"z">>)) >>,
             TRUE, TRUE, TRUE)

PluginB ==
    Provider("stub", "B", <<"b">>, TRUE,
             << Result(<<"b", ":", "x">>, 100, ExecCmd(<<"x">>)),
                Result(<<"b", ":", "w">>, 200, ExecCmd(<<"w">>)) >>,
             TRUE, TRUE, TRUE)

\* A second provider that answers to the id "a"; its execute fails.
PluginA2 ==
    Provider("stub", "A2", <<"a">>, TRUE,
             << Result(<<"a", ":", "v">>, 100, ExecCmd(<<"v">>)),
                Result(<<"a", ":", "u">>, 100, ExecCmd(<<"u">>)) >>,
             TRUE, TRUE, FALSE)

\* A provider registered with enabled = false.
PluginOff ==
    Provider("stub", "Off", <<"c">>, FALSE,
             << Result(<<"c", ":", "x">>, 300, ExecCmd(<<"x">>)) >>,
             TRUE, TRUE, TRUE)

\* A provider whose initialize and search return an error.
PluginBad ==
    Provider("stub", "Bad", <<"d">>, TRUE,
             << Result(<<"d", ":", "x">>, 400, ExecCmd(<<"x">>)) >>,
             FALSE, FALSE, TRUE)

\* A provider registered under the id of the picker sentinel.  Ids starting
\* with "__plugin__:" are reserved for picker results, so it returns none.
PluginSentinelNamed ==
    Provider("stub", "Sentinel", SentinelId, TRUE, <<>>, TRUE, TRUE, TRUE)

ProviderPool ==
    {AppLauncherPlugin, CalculatorPlugin, PluginA, PluginB, PluginA2,
     PluginOff, PluginBad, PluginSentinelNamed}

\* ----------------------------------------------------- AppLauncherPlugin
\* AppLauncherPlugin::initialize: stores what scan_start_menu returns.
\* scan_directory swallows every I/O error, so the scan always succeeds.
AppLauncherInitialize(p) ==
    [ok |-> TRUE, plugin |-> [p EXCEPT !.apps = StartMenu]]

AppLauncherResult(app) ==
    Result(<<"a", "p", "p", ":">> \o app.path, 100,
           Action("LaunchApp", app.path))

\* The loop of AppLauncherPlugin::search: a matching app is pushed first and
\* the limit is tested afterwards.
RECURSIVE AppLauncherScan(_, _, _, _)
AppLauncherScan(apps, query, limit, results) ==
    IF apps = <<>> THEN results
    ELSE IF Contains(to_lowercase(Head(apps).name), to_lowercase(query))
         THEN LET pushed == Append(results, AppLauncherResult(Head(apps)))
              IN IF Len(pushed) >= limit THEN pushed
                 ELSE AppLauncherScan(Tail(apps), query, limit, pushed)
         ELSE AppLauncherScan(Tail(apps), query, limit, results)

\* AppLauncherPlugin::search
AppLauncherSearch(p, query, limit) ==
    [ok |-> TRUE, out |-> AppLauncherScan(p.apps, query, limit, <<>>)]

\* AppLauncherPlugin::execute: launch_app fails when the spawn fails.
AppLauncherExecute(p, result, spawnOk) ==
    IF result.action.tag = "LaunchApp" /\ ~spawnOk THEN "Err(provider)"
    ELSE "Ok"

\* ------------------------------------------------------- CalculatorPlugin
Digits == <<"0", "1", "2", "3", "4", "5", "6", "7", "8", "9">>
IsDigit(c) == \E d \in 1..10 : Digits[d] = c
DigitValue(c) == (CHOOSE d \in 1..10 : Digits[d] = c) - 1

RECURSIVE DecimalValue(_)
DecimalValue(s) ==
    IF s = <<>> THEN 0
    ELSE 10 * DecimalValue(SubSeq(s, 1, Len(s) - 1)) + DigitValue(s[Len(s)])

\* CalculatorPlugin::format_result of a whole number ("{:.0}").
RECURSIVE format_result(_)
format_result(n) ==
    IF n < 0 THEN <<"-">> \o format_result(0 - n)
    ELSE IF n < 10 THEN <<Digits[n + 1]>>
    ELSE format_result(n \div 10) \o <<Digits[(n % 10) + 1]>>

None == [some |-> FALSE, val |-> 0]
Some(v) == [some |-> TRUE, val |-> v]

\* str::parse::<f64> on the strings of the model: an optional sign followed
\* by decimal digits (no query of the model holds '.', an exponent, "inf"
\* or "nan").
ParseF64(s) ==
    LET body == IF s # <<>> /\ Head(s) \in {"+", "-"} THEN Tail(s) ELSE s
    IN IF body # <<>> /\ \A i \in 1..Len(body) : IsDigit(body[i])
       THEN Some(IF Head(s) = "-" THEN 0 - DecimalValue(body)
                 ELSE DecimalValue(body))
       ELSE None

\* str::find and str::rfind of a character: 0-based position, or -1.
Find(s, c) ==
    IF \E i \in 1..Len(s) : s[i] = c
    THEN (CHOOSE i \in 1..Len(s) : s[i] = c /\ \A j \in 1..(i - 1) : s[j] # c) - 1
    ELSE -1

RFind(s, c) ==
    IF \E i \in 1..Len(s) : s[i] = c
    THEN (CHOOSE i \in 1..Len(s) :
              s[i] = c /\ \A j \in (i + 1)..Len(s) : s[j] # c) - 1
    ELSE -1

\* CalculatorPlugin::parse_expression on integers: '+' is split at its first
\* occurrence, then '-' at its last one (unless it leads), then '*'.  The
\* branches for parentheses and '/' are left out: no query of the model
\* holds these characters.
RECURSIVE parse_expression(_)
parse_expression(expr) ==
    LET plus == Find(expr, "+")
        minus == RFind(expr, "-")
        times == Find(expr, "*")
        left(pos) == parse_expression(SubSeq(expr, 1, pos))
        right(pos) == parse_expression(SubSeq(expr, pos + 2, Len(expr)))
    IN IF plus >= 0
       THEN IF left(plus).some /\ right(plus).some
            THEN Some(left(plus).val + right(plus).val) ELSE None
       ELSE IF minus > 0
       THEN IF left(minus).some /\ right(minus).some
            THEN Some(left(minus).val - right(minus).val) ELSE None
       ELSE IF times >= 0
       THEN IF left(times).some /\ right(times).some
            THEN Some(left(times).val * right(times).val) ELSE None
       ELSE ParseF64(expr)

RemoveSpaces(s) == SelectSeq(s, LAMBDA c : c # " ")

\* CalculatorPlugin::evaluate
evaluate(expression) ==
    LET expr == RemoveSpaces(expression)
    IN IF ParseF64(expr).some THEN ParseF64(expr) ELSE parse_expression(expr)

\* CalculatorPlugin::is_expression
is_expression(query) ==
    LET expr == RemoveSpaces(query)
    IN \/ \E i \in 1..Len(expr) : expr[i] \in {"+", "-", "*", "/", "(", ")"}
       \/ ParseF64(expr).some

\* CalculatorPlugin::search: the limit is not read.
CalculatorSearch(p, query, limit) ==
    [ok |-> TRUE,
     out |-> IF is_expression(query) /\ evaluate(query).some
             THEN << Result(<<"c", "a", "l", "c", ":">> \o query, 1000,
                            Action("CopyToClipboard",
                                   format_result(evaluate(query).val))) >>
             ELSE <<>>]

\* --------------------------------------------------------- ClipboardPlugin
ClipboardId == <<"c", "l", "i", "p", "b", "o", "a", "r", "d">>

\* ClipboardPlugin.max_history
max_history == 100

\* ClipboardPlugin::new
ClipboardPlugin ==
    Provider("clipboard", "Clipboard", ClipboardId, TRUE, <<>>, TRUE, TRUE, TRUE)

\* "{}" of an integer.
Display(n) == format_result(n)

\* The ClipboardEntry that add_entry builds at now (milliseconds).
ClipboardEntry(text, now) ==
    [id |-> <<"c", "l", "i", "p", ":">> \o Display(now), text |-> text,
     timestamp |-> now]

\* An add_entry that does not compare the text with the newest entry.
add_entry_no_dedupe(p, text, now) ==
    IF text = <<>> THEN p
    ELSE [p EXCEPT !.history =
             Truncate(<<ClipboardEntry(text, now)>> \o p.history, max_history)]

\* ClipboardPlugin::add_entry: empty text and a repeat of the newest text
\* are ignored; the entry is put in front and the history cut to
\* max_history.
add_entry(p, text, now) ==
    IF text = <<>> THEN p
    ELSE IF p.history # <<>> /\ Head(p.history).text = text THEN p
    ELSE [p EXCEPT !.history =
             Truncate(<<ClipboardEntry(text, now)>> \o p.history, max_history)]

\* ClipboardPlugin::refresh: the history is cleared.
clipboard_refresh(p) == [p EXCEPT !.history = <<>>]

\* ClipboardPlugin::initialize: text is what the system clipboard holds,
\* empty when it holds nothing or cannot be read.
ClipboardInitialize(p, text, now) ==
    [ok |-> TRUE, plugin |-> add_entry(p, text, now)]

ClipboardResult(entry, score) ==
    Result(entry.id, score, Action("CopyToClipboard", entry.text))

\* The loop of ClipboardPlugin::search for a non-empty query.
RECURSIVE ClipboardScan(_, _, _, _)
ClipboardScan(history, query, limit, results) ==
    IF history = <<>> THEN results
    ELSE IF Contains(to_lowercase(Head(history).text), to_lowercase(query))
         THEN LET pushed == Append(results, ClipboardResult(Head(history), 50))
              IN IF Len(pushed) >= limit THEN pushed
                 ELSE ClipboardScan(Tail(history), query, limit, pushed)
         ELSE ClipboardScan(Tail(history), query, limit, results)

\* ClipboardPlugin::search
ClipboardSearch(p, query, limit) ==
    [ok |-> TRUE,
     out |-> IF query = <<>>
             THEN [k \in 1..Min(limit, Len(p.history)) |->
                      ClipboardResult(p.history[k], 0)]
             ELSE ClipboardScan(p.history, query, limit, <<>>)]

\* ---------------------------------------------------- CustomCommandsPlugin
CustomCommandsId ==
    <<"c", "u", "s", "t", "o", "m", "_", "c", "o", "m", "m", "a", "n", "d", "s">>

CustomCommand(alias, command, description) ==
    [alias |-> alias, command |-> command, description |-> description]

\* The first two of the default commands (descriptions cut to their first
\* word).
default_commands ==
    << CustomCommand(<<"g", "i", "t">>, <<"g", "i", "t">>, <<"G", "i", "t">>),
       CustomCommand(<<"n", "p", "m">>, <<"n", "p", "m">>,
                     <<"N", "o", "d", "e">>) >>

\* CustomCommandsPlugin::new
CustomCommandsPlugin ==
    [Provider("custom_commands", "CustomCommands", CustomCommandsId, TRUE,
              <<>>, TRUE, TRUE, TRUE)
     EXCEPT !.commands = default_commands]

\* CustomCommandsPlugin::add_command
add_command(p, command) == [p EXCEPT !.commands = Append(@, command)]

\* CustomCommandsPlugin::parse_custom_command: the alias and the list of
\* arguments of an input that starts with '>' or ':'.
parse_custom_command(input) ==
    LET parts == SplitAtSpace(Tail(input))
    IN [alias |-> parts[1],
        args |-> IF " " \in Range(Tail(input)) THEN SplitSpaces(parts[2])
                 ELSE <<>>]

\* The first loop of CustomCommandsPlugin::search.
RECURSIVE CustomCommandsScan(_, _, _, _)
CustomCommandsScan(commands, query, limit, results) ==
    IF commands = <<>> THEN results
    ELSE LET cmd == Head(commands)
         IN IF \/ Contains(to_lowercase(cmd.alias), to_lowercase(query))
               \/ Contains(to_lowercase(cmd.description), to_lowercase(query))
            THEN LET pushed ==
                       Append(results,
                              Result(CustomCommandsId \o <<":">> \o cmd.alias,
                                     85, ExecCmd(cmd.command)))
                 IN IF Len(pushed) >= limit THEN pushed
                    ELSE CustomCommandsScan(Tail(commands), query, limit, pushed)
            ELSE CustomCommandsScan(Tail(commands), query, limit, results)

\* The second part of CustomCommandsPlugin::search: the run entry of the
\* first command whose alias is the one typed after '>' or ':'.
CustomCommandsRun(commands, query) ==
    IF query # <<>> /\ Head(query) \in {">", ":"}
    THEN LET parsed == parse_custom_command(query)
             hit == {i \in 1..Len(commands) :
                       to_lowercase(commands[i].alias)
                           = to_lowercase(parsed.alias)}
         IN IF hit = {} THEN <<>>
            ELSE LET cmd == commands[CHOOSE i \in hit : \A j \in hit : i <= j]
                 IN << Result(CustomCommandsId \o <<":", "r", "u", "n", ":">>
                                  \o parsed.alias,
                              100,
                              ExecCmd(IF parsed.args = <<>> THEN cmd.command
                                      ELSE cmd.command \o <<" ">>
                                               \o JoinSpaces(parsed.args))) >>
    ELSE <<>>

\* CustomCommandsPlugin::search
CustomCommandsSearch(p, query, limit) ==
    [ok |-> TRUE,
     out |-> CustomCommandsScan(p.commands, query, limit, <<>>)
                 \o CustomCommandsRun(p.commands, query)]

\* ------------------------------------------------------- the Plugin trait
\* Plugin::initialize: the outcome and the provider afterwards.
PluginInitialize(p) ==
    IF p.kind = "app_launcher" THEN AppLauncherInitialize(p)
    ELSE IF p.kind = "calculator" THEN [ok |-> TRUE, plugin |-> p]
    ELSE [ok |-> p.initOk, plugin |-> p]

\* Plugin::search: Ok(out) or Err.
PluginSearch(p, query, limit) ==
    IF p.kind = "app_launcher" THEN AppLauncherSearch(p, query, limit)
    ELSE IF p.kind = "calculator" THEN CalculatorSearch(p, query, limit)
    ELSE IF p.kind = "clipboard" THEN ClipboardSearch(p, query, limit)
    ELSE IF p.kind = "custom_commands" THEN CustomCommandsSearch(p, query, limit)
    ELSE IF p.searchOk THEN [ok |-> TRUE, out |-> p.hits]
    ELSE [ok |-> FALSE, out |-> <<>>]

\* Plugin::execute: "Ok" or "Err(provider)".
PluginExecute(p, result, spawnOk) ==
    IF p.kind = "app_launcher" THEN AppLauncherExecute(p, result, spawnOk)
    ELSE IF p.kind = "calculator" THEN "Ok"
    ELSE IF p.execOk THEN "Ok"
    ELSE "Err(provider)"

\* ---------------------------------------------------------- PluginManager
\* Every provider sits behind its own Mutex and each operation locks one
\* provider at a time.  A lock() fails only on a poisoned mutex, that is
\* after a panic under the lock; no thread of the program survives such a
\* panic with the registry in hand, so lock() is taken to succeed.

\* Marks the results of one provider with where they come from.
Stamp(out, idx) ==
    [k \in 1..Len(out) |-> [out[k] EXCEPT !.prov = idx, !.pos = k]]

\* Position of r in a list sorted by descending score: behind every entry
\* whose score is not lower (entries that compare equal keep their order).
RECURSIVE InsertByScore(_, _)
InsertByScore(sorted, r) ==
    IF sorted = <<>> THEN <<r>>
    ELSE IF Head(sorted).score >= r.score
         THEN <<Head(sorted)>> \o InsertByScore(Tail(sorted), r)
         ELSE <<r>> \o sorted

RECURSIVE InsertBeforeEqual(_, _)
InsertBeforeEqual(sorted, r) ==
    IF sorted = <<>> THEN <<r>>
    ELSE IF Head(sorted).score > r.score
         THEN <<Head(sorted)>> \o InsertBeforeEqual(Tail(sorted), r)
         ELSE <<r>> \o sorted

RECURSIVE SortFrom(_, _)
SortFrom(sorted, rest) ==
    IF rest = <<>> THEN sorted
    ELSE SortFrom(InsertByScore(sorted, Head(rest)), Tail(rest))

RECURSIVE SortFromUnstable(_, _)
SortFromUnstable(sorted, rest) ==
    IF rest = <<>> THEN sorted
    ELSE SortFromUnstable(InsertBeforeEqual(sorted, Head(rest)), Tail(rest))

\* A sort that does not keep the order of equal scores.
sort_by_score_unstable(v) == SortFromUnstable(<<>>, v)

\* results.sort_by(|a, b| b.score.cmp(&a.score)): a stable sort, descending.
sort_by_score(v) == SortFrom(<<>>, v)

\* A fan-out step that searches a provider whatever its enabled flag.
search_all_step_ignoring_enabled(acc, ps, i, query, limit) ==
    LET s == PluginSearch(ps[i], query, limit)
    IN [log |-> Append(acc.log, [idx |-> i, query |-> query,
                                 limit |-> limit, ok |-> s.ok]),
        merged |-> IF s.ok THEN acc.merged \o Stamp(s.out, i)
                   ELSE acc.merged]

\* A fan-out step in which a provider's error drops what was collected.
search_all_step_error_clears(acc, ps, i, query, limit) ==
    IF ps[i].enabled
    THEN LET s == PluginSearch(ps[i], query, limit)
         IN [log |-> Append(acc.log, [idx |-> i, query |-> query,
                                      limit |-> limit, ok |-> s.ok]),
             merged |-> IF s.ok THEN acc.merged \o Stamp(s.out, i)
                        ELSE <<>>]
    ELSE acc

\* One iteration of the loop of search_all: an enabled provider is searched
\* with the caller's query and limit; Ok results are appended, an Err is
\* logged.  log lists the provider searches made so far.
search_all_step(acc, ps, i, query, limit) ==
    IF ps[i].enabled
    THEN LET s == PluginSearch(ps[i], query, limit)
         IN [log |-> Append(acc.log, [idx |-> i, query |-> query,
                                      limit |-> limit, ok |-> s.ok]),
             merged |-> IF s.ok THEN acc.merged \o Stamp(s.out, i)
                        ELSE acc.merged]
    ELSE acc

RECURSIVE search_all_loop(_, _, _, _, _)
search_all_loop(acc, ps, i, query, limit) ==
    IF i > Len(ps) THEN acc
    ELSE search_all_loop(search_all_step(acc, ps, i, query, limit),
                         ps, i + 1, query, limit)

\* A search_all that cuts the merged list before it sorts it.
search_all_truncate_first(ps, query, limit) ==
    LET fan == search_all_loop([log |-> <<>>, merged |-> <<>>],
                               ps, 1, query, limit)
    IN [log |-> fan.log,
        merged |-> fan.merged,
        results |-> sort_by_score(Truncate(fan.merged, limit))]

\* PluginManager::search_all: the provider searches it makes (log), the
\* concatenation of their results (merged) and the list it returns.
search_all(ps, query, limit) ==
    LET fan == search_all_loop([log |-> <<>>, merged |-> <<>>],
                               ps, 1, query, limit)
    IN [log |-> fan.log,
        merged |-> fan.merged,
        results |-> Truncate(sort_by_score(fan.merged), limit)]

\* An initialize_all step that gives up at the first failure.
initialize_all_step_abort(acc, i) ==
    IF acc.ret # "Ok" THEN acc
    ELSE LET r == PluginInitialize(acc.plugins[i])
         IN [plugins |-> [acc.plugins EXCEPT ![i] = r.plugin],
             log |-> Append(acc.log, [idx |-> i, ok |-> r.ok]),
             ret |-> IF r.ok THEN "Ok" ELSE "Err(provider)"]

\* One iteration of the loop of initialize_all: the provider is initialized
\* and a failure is logged.
initialize_all_step(acc, i) ==
    LET r == PluginInitialize(acc.plugins[i])
    IN [plugins |-> [acc.plugins EXCEPT ![i] = r.plugin],
        log |-> Append(acc.log, [idx |-> i, ok |-> r.ok]),
        ret |-> "Ok"]

RECURSIVE initialize_all_loop(_, _)
initialize_all_loop(acc, i) ==
    IF i > Len(acc.plugins) THEN acc
    ELSE initialize_all_loop(initialize_all_step(acc, i), i + 1)

\* PluginManager::initialize_all: the registry afterwards, the initialize
\* calls it makes and what it returns.
initialize_all(ps) ==
    initialize_all_loop([plugins |-> ps, log |-> <<>>, ret |-> "Ok"], 1)

\* Ownership test without the exact-id arm.
OwnsPrefixOnly(plugin_id, result) ==
    StartsWith(result.id, plugin_id \o Colon)

\* The test of PluginManager::execute: the result id starts with
\* "<plugin_id>:" or equals plugin_id.
Owns(plugin_id, result) ==
    StartsWith(result.id, plugin_id \o Colon) \/ result.id = plugin_id

RECURSIVE execute_loop(_, _, _, _)
execute_loop(ps, i, result, spawnOk) ==
    IF i > Len(ps)
    THEN [log |-> <<>>, ret |-> "Err(no_owner)"]
    ELSE IF Owns(ps[i].id, result)
         THEN LET out == PluginExecute(ps[i], result, spawnOk)
              IN [log |-> <<[idx |-> i, ret |-> out]>>, ret |-> out]
         ELSE execute_loop(ps, i + 1, result, spawnOk)

RECURSIVE execute_loop_rev(_, _, _, _)
execute_loop_rev(ps, i, result, spawnOk) ==
    IF i < 1
    THEN [log |-> <<>>, ret |-> "Err(no_owner)"]
    ELSE IF Owns(ps[i].id, result)
         THEN LET out == PluginExecute(ps[i], result, spawnOk)
              IN [log |-> <<[idx |-> i, ret |-> out]>>, ret |-> out]
         ELSE execute_loop_rev(ps, i - 1, result, spawnOk)

\* An execute that walks the registry from its end.
execute_last_wins(ps, result, spawnOk) ==
    execute_loop_rev(ps, Len(ps), result, spawnOk)

\* PluginManager::execute: the provider execute calls it makes (at most
\* one) and what it returns: the owner's outcome, or the error of its own.
execute(ps, result, spawnOk) == execute_loop(ps, 1, result, spawnOk)

\* ------------------------------------------------- ResultListDelegate
\* The limit the list passes to every search.
SearchLimit == 50

NoPlugin == [some |-> FALSE, val |-> <<>>]
SomePlugin(id) == [some |-> TRUE, val |-> id]

\* A match_plugin_ids that compares without regard to letter case.
match_plugin_ids_ignoring_case(ps, prefix) ==
    LET hit == SelectSeq([i \in 1..Len(ps) |-> i],
                         LAMBDA i : StartsWith(to_lowercase(ps[i].id),
                                               to_lowercase(prefix)))
    IN [k \in 1..Len(hit) |-> ps[hit[k]].id]

\* A match_plugin_ids that compares the first character only.
match_plugin_ids_first_char(ps, prefix) ==
    LET hit == SelectSeq([i \in 1..Len(ps) |-> i],
                         LAMBDA i : StartsWith(ps[i].id,
                                               SubSeq(prefix, 1, Min(1, Len(prefix)))))
    IN [k \in 1..Len(hit) |-> ps[hit[k]].id]

\* PluginManager::match_plugin_ids: the ids of the providers whose id starts
\* with the prefix, in registration order.
match_plugin_ids(ps, prefix) ==
    LET hit == SelectSeq([i \in 1..Len(ps) |-> i],
                         LAMBDA i : StartsWith(ps[i].id, prefix))
    IN [k \in 1..Len(hit) |-> ps[hit[k]].id]

\* PluginManager::search_plugin: search_all scoped to the first provider
\* registered under plugin_id; its enabled flag is not consulted.
search_plugin(ps, plugin_id, query, limit) ==
    LET own == {i \in 1..Len(ps) : ps[i].id = plugin_id}
    IN IF query = <<>> \/ own = {}
       THEN [log |-> <<>>, results |-> <<>>]
       ELSE LET i == CHOOSE j \in own : \A k \in own : j <= k
                s == PluginSearch(ps[i], query, limit)
            IN [log |-> <<[idx |-> i, query |-> query, limit |-> limit,
                           ok |-> s.ok]>>,
                results |-> IF s.ok
                            THEN Truncate(sort_by_score(Stamp(s.out, i)), limit)
                            ELSE <<>>]

\* str::trim_start_matches('/')
RECURSIVE TrimSlashes(_)
TrimSlashes(s) ==
    IF s # <<>> /\ Head(s) = "/" THEN TrimSlashes(Tail(s)) ELSE s

\* A picker result whose action names "selector".
PickerResultSelector(id) ==
    Result(PluginSentinel \o id, 1000, CustomAction("selector", id))

\* The picker result built for one provider id.
PickerResult(id) ==
    Result(PluginSentinel \o id, 1000, CustomAction("plugin_selector", id))

\* A handle_plugin_command_static that offers the picker whatever follows
\* the prefix.
handle_plugin_command_picker_only(ps, q) ==
    LET trimmed == TrimSlashes(q)
        matches == match_plugin_ids(ps, SplitAtSpace(trimmed)[1])
    IN IF trimmed = <<>> THEN [log |-> <<>>, results |-> <<>>]
       ELSE [log |-> <<>>,
             results |-> [k \in 1..Len(matches) |-> PickerResult(matches[k])]]

\* ResultListDelegate::handle_plugin_command_static
handle_plugin_command_static(ps, q) ==
    LET trimmed == TrimSlashes(q)
        plugin_prefix == SplitAtSpace(trimmed)[1]
        search_term == SplitAtSpace(trimmed)[2]
        matches == match_plugin_ids(ps, plugin_prefix)
    IN IF trimmed = <<>> THEN [log |-> <<>>, results |-> <<>>]
       ELSE IF search_term = <<>>
       THEN [log |-> <<>>,
             results |-> [k \in 1..Len(matches) |-> PickerResult(matches[k])]]
       ELSE search_plugin(ps, plugin_prefix, search_term, SearchLimit)

\* A perform_search_internal that does not look at the active plugin.
perform_search_internal_unscoped(ps, active, q) ==
    IF StartsWith(q, <<"/">>)
    THEN handle_plugin_command_static(ps, q)
    ELSE LET out == search_all(ps, q, SearchLimit)
         IN [log |-> out.log, results |-> out.results]

\* ResultListDelegate::perform_search_internal: the provider searches made
\* and the items shown.
perform_search_internal(ps, active, q) ==
    IF active.some
    THEN IF q = <<>> THEN [log |-> <<>>, results |-> <<>>]
         ELSE search_plugin(ps, active.val, q, SearchLimit)
    ELSE IF StartsWith(q, <<"/">>)
    THEN handle_plugin_command_static(ps, q)
    ELSE LET out == search_all(ps, q, SearchLimit)
         IN [log |-> out.log, results |-> out.results]

\* --------------------------------------------------------- LauncherWindow
\* The test that on_list_event and execute_result make first: a picker
\* result, which selects a provider instead of being executed.
IsPluginSelection(result) ==
    StartsWith(result.id, PluginSentinel) /\ result.action.tag = "Custom"

FallbackTags ==
    {"LaunchApp", "OpenFile", "ExecuteCommand", "CopyToClipboard", "OpenUrl"}

\* LauncherWindow::execute_result: the provider execute calls made, what
\* PluginManager::execute returned and the side effects of the dispatch by
\* action tag that follows a failure.
execute_result(ps, result, spawnOk) ==
    IF IsPluginSelection(result)
    THEN [log |-> <<>>, ret |-> "Ok", fallback |-> <<>>]
    ELSE LET out == execute(ps, result, spawnOk)
         IN [log |-> out.log,
             ret |-> out.ret,
             fallback |-> IF out.ret # "Ok" /\ result.action.tag \in FallbackTags
                          THEN <<[tag |-> result.action.tag,
                                  data |-> result.action.data]>>
                          ELSE <<>>]

\* ------------------------------------------------------------------ inputs
EmptyQuery == <<>>
Queries == {EmptyQuery, <<"a">>, <<"b">>, <<"1", "+", "1">>}
Limits == 0..MaxLimit

\* What is typed into the search box of the list.
WindowQueries ==
    Queries \cup { <<"/">>, <<"/", "a">>, <<"/", "c">>, <<"/", "_">>,
                   <<"/", "a", " ", "b">>, <<"/", " ", "b">>,
                   <<"/", " ">> }

NoResult == Result(<<>>, 0, Action("None", <<>>))

\* Results a caller of execute builds by hand.
CallerResults ==
    { Result(<<"a", ":", "x">>, 100, ExecCmd(<<"x">>)),
      Result(<<"a">>, 100, ExecCmd(<<"x">>)),
      Result(<<"a", "b", ":", "x">>, 100, ExecCmd(<<"x">>)),
      Result(<<"u", ":", "x">>, 100, ExecCmd(<<"x">>)),
      Result(AppLauncherId \o <<":", "p">>, 100, Action("LaunchApp", <<"p">>)),
      Result(PluginSentinel \o <<"a">>, 1000,
             CustomAction("plugin_selector", <<"a">>)) }

\* The threads of the program that share a PluginManager or the global
\* WindowManager.
MaxThreads == 2
Threads == 1..MaxThreads

\* A thread that is in no call of the PluginManager.
IdleThread ==
    [pc |-> "idle", call |-> "none", i |-> 0, query |-> <<>>, limit |-> 0,
     arg |-> NoResult, acc |-> [log |-> <<>>, merged |-> <<>>], holds |-> {},
     calls |-> 0]

\* A thread that is in no method of the WindowManager.
IdleCall == [pc |-> "idle", method |-> "none", inner |-> "none"]

\* ------------------------------------------------------------------- state
VARIABLES
    plugins,      \* PluginManager.plugins: the registry, in registration order
    op,           \* the operation that ran last
    query,        \* its query
    limit,        \* its limit
    arg,          \* the result it was given
    searchLog,    \* the provider search calls it made, in order
    results,      \* the list it returned
    initLog,      \* the provider initialize calls it made, in order
    execLog,      \* the provider execute calls it made, in order
    ret,          \* what it returned
    phase,            \* "new" until LauncherWindow::new has run, then "ready"
    items,            \* ResultListDelegate.items
    active_plugin_id, \* LauncherWindow.active_plugin_id
    delegate_active_plugin_id, \* ResultListDelegate.active_plugin_id
    dismissed,        \* the last handler emitted DismissEvent
    fallbackLog,      \* side effects of the dispatch by action tag
    target,       \* the second text argument of the operation that ran last
    value,        \* what a function that returns no result list returned
    provider,     \* the provider object its creator holds: none or one
    threads,      \* the threads that share the PluginManager: the call each
                  \* is in, its place in the loop and the guards it holds
    window_handle, \* WindowManager.window_handle
    visibility,    \* WindowManager.visibility
    wmCalls        \* the threads that share the global WindowManager: the
                   \* method each is in and its place in it

apiVars == <<plugins, op, query, limit, arg, searchLog, results, initLog,
             execLog, ret>>
uiVars == <<phase, items, active_plugin_id, delegate_active_plugin_id,
            dismissed, fallbackLog>>
fnVars == <<target, value>>
concVars == <<threads, window_handle, visibility, wmCalls>>
vars == <<apiVars, uiVars, fnVars, provider, concVars>>

\* PluginManager::new
Init ==
    /\ plugins = <<>>
    /\ op = "new"
    /\ query = <<>>
    /\ limit = 0
    /\ arg = NoResult
    /\ searchLog = <<>>
    /\ results = <<>>
    /\ initLog = <<>>
    /\ execLog = <<>>
    /\ ret = "Ok"
    /\ phase = "new"
    /\ items = <<>>
    /\ active_plugin_id = NoPlugin
    /\ delegate_active_plugin_id = NoPlugin
    /\ dismissed = FALSE
    /\ fallbackLog = <<>>
    /\ target = <<>>
    /\ value = <<>>
    /\ provider = <<>>
    /\ threads = [t \in Threads |-> IdleThread]
    /\ window_handle = None
    /\ visibility = "Hidden"
    /\ wmCalls = [t \in Threads |-> IdleCall]

\* ----------------------------------------------------------------- actions
\* A register that skips a provider whose id is already registered.
register_dedup(p) ==
    /\ Len(plugins) < MaxPlugins
    /\ \A i \in 1..Len(plugins) : plugins[i].name # p.name
    /\ plugins' = IF \E i \in 1..Len(plugins) : plugins[i].id = p.id
                  THEN plugins
                  ELSE Append(plugins, p)
    /\ op' = "register"
    /\ UNCHANGED concVars
    /\ target' = <<>>
    /\ value' = <<>>
    /\ query' = <<>>
    /\ limit' = 0
    /\ arg' = NoResult
    /\ searchLog' = <<>>
    /\ results' = <<>>
    /\ initLog' = <<>>
    /\ execLog' = <<>>
    /\ ret' = "Ok"
    /\ UNCHANGED <<uiVars, provider>>

\* PluginManager::register.  The provider object is moved into the registry,
\* so one object is registered at most once; two objects may share an id.
register(p) ==
    /\ Len(plugins) < MaxPlugins
    /\ \A i \in 1..Len(plugins) : plugins[i].name # p.name
    /\ plugins' = Append(plugins, p)
    /\ op' = "register"
    /\ UNCHANGED concVars
    /\ target' = <<>>
    /\ value' = <<>>
    /\ UNCHANGED provider
    /\ query' = <<>>
    /\ limit' = 0
    /\ arg' = NoResult
    /\ searchLog' = <<>>
    /\ results' = <<>>
    /\ initLog' = <<>>
    /\ execLog' = <<>>
    /\ ret' = "Ok"
    /\ UNCHANGED uiVars

\* The effect of PluginManager::initialize_all on the registry.
InitializeAllCall ==
    LET out == initialize_all(plugins)
    IN /\ plugins' = out.plugins
       /\ op' = "initialize_all"
       /\ UNCHANGED concVars
       /\ target' = <<>>
       /\ value' = <<>>
       /\ UNCHANGED provider
       /\ query' = <<>>
       /\ limit' = 0
       /\ arg' = NoResult
       /\ searchLog' = <<>>
       /\ results' = <<>>
       /\ initLog' = out.log
       /\ execLog' = <<>>
       /\ ret' = out.ret

\* A call of PluginManager::initialize_all.
InitializeAll == InitializeAllCall /\ UNCHANGED uiVars

\* A call of PluginManager::search_all.
SearchAll(q, l) ==
    LET out == search_all(plugins, q, l)
    IN /\ op' = "search_all"
       /\ UNCHANGED concVars
       /\ target' = <<>>
       /\ value' = <<>>
       /\ UNCHANGED provider
       /\ query' = q
       /\ limit' = l
       /\ arg' = NoResult
       /\ searchLog' = out.log
       /\ results' = out.results
       /\ initLog' = <<>>
       /\ execLog' = <<>>
       /\ ret' = "Ok"
       /\ UNCHANGED <<plugins, uiVars>>

\* A call of PluginManager::execute, on a result of the last search or on one
\* the caller built; spawnOk is whether the process spawn succeeds.
Execute(r, spawnOk) ==
    LET out == execute(plugins, r, spawnOk)
    IN /\ op' = "execute"
       /\ UNCHANGED concVars
       /\ target' = <<>>
       /\ value' = <<>>
       /\ UNCHANGED provider
       /\ query' = <<>>
       /\ limit' = 0
       /\ arg' = r
       /\ searchLog' = <<>>
       /\ results' = <<>>
       /\ initLog' = <<>>
       /\ execLog' = out.log
       /\ ret' = out.ret
       /\ UNCHANGED <<plugins, uiVars>>

Next ==
    \/ \E p \in ProviderPool : register(p)
    \/ InitializeAll
    \/ \E q \in Queries, l \in Limits : SearchAll(q, l)
    \/ \E r \in CallerResults \cup Range(results), spawnOk \in BOOLEAN :
           Execute(r, spawnOk)

Spec == Init /\ [][Next]_vars

\* -------------------------------------------------- launcher window actions
\* LauncherWindow::init_plugins: one register call.
InitPlugins(p) ==
    /\ phase = "new"
    /\ Len(plugins) < MaxWindowPlugins
    /\ register(p)

\* LauncherWindow::new, after init_plugins: initialize_all, then the list
\* is created empty with no active plugin.
LauncherWindowNew ==
    /\ phase = "new"
    /\ InitializeAllCall
    /\ phase' = "ready"
    /\ items' = <<>>
    /\ active_plugin_id' = NoPlugin
    /\ delegate_active_plugin_id' = NoPlugin
    /\ dismissed' = FALSE
    /\ fallbackLog' = <<>>

\* ResultListDelegate::perform_search: the text of the search box changed.
PerformSearch(q) ==
    LET out == perform_search_internal(plugins, delegate_active_plugin_id, q)
    IN /\ phase = "ready"
       /\ items' = out.results
       /\ op' = "perform_search"
       /\ UNCHANGED concVars
       /\ target' = <<>>
       /\ value' = <<>>
       /\ UNCHANGED provider
       /\ query' = q
       /\ limit' = SearchLimit
       /\ arg' = NoResult
       /\ searchLog' = out.log
       /\ results' = out.results
       /\ initLog' = <<>>
       /\ execLog' = <<>>
       /\ ret' = "Ok"
       /\ dismissed' = FALSE
       /\ fallbackLog' = <<>>
       /\ UNCHANGED <<plugins, phase, active_plugin_id,
                      delegate_active_plugin_id>>

\* An on_list_event that hands every confirmed item to execute_result.
on_list_event_confirm_no_intercept(ix, spawnOk) ==
    LET result == items[ix]
        out == execute_result(plugins, result, spawnOk)
    IN /\ phase = "ready"
       /\ op' = "confirm"
       /\ UNCHANGED concVars
       /\ target' = <<>>
       /\ value' = <<>>
       /\ UNCHANGED provider
       /\ query' = <<>>
       /\ limit' = 0
       /\ arg' = result
       /\ searchLog' = <<>>
       /\ results' = <<>>
       /\ initLog' = <<>>
       /\ execLog' = out.log
       /\ ret' = out.ret
       /\ fallbackLog' = out.fallback
       /\ dismissed' = TRUE
       /\ UNCHANGED <<plugins, phase, items, active_plugin_id,
                      delegate_active_plugin_id>>

\* LauncherWindow::on_list_event, ListEvent::Confirm on row ix: a picker
\* result sets the active plugin of the window and of the list and returns;
\* any other result is executed and the window is dismissed.
on_list_event_confirm(ix, spawnOk) ==
    LET result == items[ix]
        out == execute_result(plugins, result, spawnOk)
    IN /\ phase = "ready"
       /\ op' = "confirm"
       /\ UNCHANGED concVars
       /\ target' = <<>>
       /\ value' = <<>>
       /\ UNCHANGED provider
       /\ query' = <<>>
       /\ limit' = 0
       /\ arg' = result
       /\ searchLog' = <<>>
       /\ results' = <<>>
       /\ initLog' = <<>>
       /\ IF IsPluginSelection(result)
          THEN /\ active_plugin_id' = SomePlugin(result.action.data)
               /\ delegate_active_plugin_id' = SomePlugin(result.action.data)
               /\ execLog' = <<>>
               /\ ret' = "Ok"
               /\ fallbackLog' = <<>>
               /\ dismissed' = FALSE
          ELSE /\ execLog' = out.log
               /\ ret' = out.ret
               /\ fallbackLog' = out.fallback
               /\ dismissed' = TRUE
               /\ UNCHANGED <<active_plugin_id, delegate_active_plugin_id>>
       /\ UNCHANGED <<plugins, phase, items>>

\* LauncherWindow::on_list_event, ListEvent::Cancel.
on_list_event_cancel ==
    /\ phase = "ready"
    /\ op' = "cancel"
    /\ UNCHANGED concVars
    /\ target' = <<>>
    /\ value' = <<>>
    /\ UNCHANGED provider
    /\ query' = <<>>
    /\ limit' = 0
    /\ arg' = NoResult
    /\ searchLog' = <<>>
    /\ results' = <<>>
    /\ initLog' = <<>>
    /\ execLog' = <<>>
    /\ ret' = "Ok"
    /\ fallbackLog' = <<>>
    /\ dismissed' = TRUE
    /\ UNCHANGED <<plugins, phase, items, active_plugin_id,
                   delegate_active_plugin_id>>

\* ResultListDelegate::clear_active_plugin: only the list's copy of the
\* active plugin is reset.
clear_active_plugin ==
    /\ phase = "ready"
    /\ delegate_active_plugin_id' = NoPlugin
    /\ op' = "clear_active_plugin"
    /\ UNCHANGED concVars
    /\ target' = <<>>
    /\ value' = <<>>
    /\ UNCHANGED provider
    /\ query' = <<>>
    /\ limit' = 0
    /\ arg' = NoResult
    /\ searchLog' = <<>>
    /\ results' = <<>>
    /\ initLog' = <<>>
    /\ execLog' = <<>>
    /\ ret' = "Ok"
    /\ fallbackLog' = <<>>
    /\ dismissed' = FALSE
    /\ UNCHANGED <<plugins, phase, items, active_plugin_id>>

NextUI ==
    \/ \E p \in ProviderPool : InitPlugins(p)
    \/ LauncherWindowNew
    \/ \E q \in WindowQueries : PerformSearch(q)
    \/ \E ix \in 1..Len(items), spawnOk \in BOOLEAN :
           on_list_event_confirm(ix, spawnOk)
    \/ on_list_event_cancel
    \/ clear_active_plugin

SpecUI == Init /\ [][NextUI]_vars

\* ------------------------------------------------ provider object actions
\* The provider objects the program ships, as their constructors leave them.
ShippedProviders ==
    {AppLauncherPlugin, CalculatorPlugin, ClipboardPlugin, CustomCommandsPlugin}

\* What is copied to the system clipboard.
ClipTexts == {<<"a">>, <<"B">>}
ClipTimes == 0..MaxTime

\* Commands handed to add_command.
AddedCommands ==
    { CustomCommand(<<"g", "i", "t">>, <<"x">>, <<"G">>),
      CustomCommand(<<"w">>, <<"w">>, <<"N">>) }

ProviderQueries ==
    Queries \cup { <<"g">>, <<">", "g", "i", "t">>, <<":", "w", " ", "a">> }

\* What an operation on the held provider object leaves to observe.
ProviderCall(name, q, l, out, r) ==
    /\ op' = name
    /\ UNCHANGED concVars
    /\ target' = <<>>
    /\ value' = <<>>
    /\ query' = q
    /\ limit' = l
    /\ arg' = NoResult
    /\ searchLog' = <<>>
    /\ results' = out
    /\ initLog' = <<>>
    /\ execLog' = <<>>
    /\ ret' = r
    /\ UNCHANGED <<plugins, uiVars>>

\* A provider object is constructed.
ProviderNew(p) ==
    /\ provider' = <<p>>
    /\ ProviderCall("new_provider", <<>>, 0, <<>>, "Ok")

\* The clock does not run backwards.
ClockAt(now) ==
    provider[1].history # <<>> => now >= Head(provider[1].history).timestamp

\* Plugin::initialize on the object; text is what the system clipboard
\* holds and now the time, which only the clipboard plugin reads.
ProviderInitialize(text, now) ==
    /\ provider # <<>>
    /\ ClockAt(now)
    /\ Len(provider[1].history) < MaxEntries
    /\ LET r == IF provider[1].kind = "clipboard"
                THEN ClipboardInitialize(provider[1], text, now)
                ELSE PluginInitialize(provider[1])
       IN /\ provider' = <<r.plugin>>
          /\ ProviderCall("initialize", <<>>, 0, <<>>,
                          IF r.ok THEN "Ok" ELSE "Err(provider)")

\* ClipboardPlugin::add_entry on the object.
AddEntry(text, now) ==
    /\ provider # <<>>
    /\ provider[1].kind = "clipboard"
    /\ ClockAt(now)
    /\ Len(provider[1].history) < MaxEntries
    /\ provider' = <<add_entry(provider[1], text, now)>>
    /\ ProviderCall("add_entry", <<>>, 0, <<>>, "Ok")

\* CustomCommandsPlugin::add_command on the object.
AddCommand(command) ==
    /\ provider # <<>>
    /\ provider[1].kind = "custom_commands"
    /\ Len(provider[1].commands) < Len(default_commands) + MaxCommands
    /\ provider' = <<add_command(provider[1], command)>>
    /\ ProviderCall("add_command", <<>>, 0, <<>>, "Ok")

\* Plugin::search on the object.
ProviderSearch(q, l) ==
    /\ provider # <<>>
    /\ LET s == PluginSearch(provider[1], q, l)
       IN ProviderCall("search", q, l, s.out,
                       IF s.ok THEN "Ok" ELSE "Err(provider)")
    /\ UNCHANGED provider

NextProviders ==
    \/ \E p \in ShippedProviders : ProviderNew(p)
    \/ \E text \in ClipTexts \cup {<<>>}, now \in ClipTimes :
           ProviderInitialize(text, now)
    \/ \E text \in ClipTexts \cup {<<>>}, now \in ClipTimes :
           AddEntry(text, now)
    \/ \E c \in AddedCommands : AddCommand(c)
    \/ \E q \in ProviderQueries, l \in Limits : ProviderSearch(q, l)

SpecProviders == Init /\ [][NextProviders]_vars

\* ------------------------------------------------- match_plugin_ids calls
\* Providers of a registry that is asked for its ids.
MatchPool == {CalculatorPlugin, CustomCommandsPlugin, ClipboardPlugin, PluginA}

MatchPrefixes ==
    { <<>>, <<"c">>, <<"c", "a">>, <<"C", "a">>, <<"c", "u">>, <<"a">>,
      <<"a", "b">>, CalculatorId }

\* A call of PluginManager::match_plugin_ids.
MatchPluginIds(prefix) ==
    /\ op' = "match_plugin_ids"
    /\ UNCHANGED concVars
    /\ target' = <<>>
    /\ value' = match_plugin_ids(plugins, prefix)
    /\ query' = prefix
    /\ limit' = 0
    /\ arg' = NoResult
    /\ searchLog' = <<>>
    /\ results' = <<>>
    /\ initLog' = <<>>
    /\ execLog' = <<>>
    /\ ret' = "Ok"
    /\ UNCHANGED <<plugins, uiVars, provider>>

NextMatch ==
    \/ \E p \in MatchPool : register(p)
    \/ \E prefix \in MatchPrefixes : MatchPluginIds(prefix)

SpecMatch == Init /\ [][NextMatch]_vars

\* ------------------------------------------------------ fuzzy_match calls
FuzzyChars == {"a", "A", "b", " ", "sigma", "SIGMA"}

\* The strings of at most n characters.
Strings(n) == UNION {[1..k -> FuzzyChars] : k \in 0..n}

\* The arguments of a call of fuzzy_match are chosen.
InitFuzzy ==
    /\ plugins = <<>>
    /\ op = "arguments"
    /\ query \in Strings(MaxQueryLen)
    /\ target \in Strings(MaxTargetLen)
    /\ value = <<>>
    /\ limit = 0
    /\ arg = NoResult
    /\ searchLog = <<>>
    /\ results = <<>>
    /\ initLog = <<>>
    /\ execLog = <<>>
    /\ ret = "Ok"
    /\ phase = "new"
    /\ items = <<>>
    /\ active_plugin_id = NoPlugin
    /\ delegate_active_plugin_id = NoPlugin
    /\ dismissed = FALSE
    /\ fallbackLog = <<>>
    /\ provider = <<>>
    /\ threads = [t \in Threads |-> IdleThread]
    /\ window_handle = None
    /\ visibility = "Hidden"
    /\ wmCalls = [t \in Threads |-> IdleCall]

\* The call fuzzy_match(query, target), in a build with or without
\* overflow checks.
FuzzyMatch(checks) ==
    /\ op = "arguments"
    /\ op' = "fuzzy_match"
    /\ UNCHANGED concVars
    /\ value' = [out |-> fuzzy_match(query, target, checks), checks |-> checks]
    /\ UNCHANGED <<query, target, limit, arg, searchLog, results, initLog,
                   execLog, ret, plugins, uiVars, provider>>

NextFuzzy == \E checks \in BOOLEAN : FuzzyMatch(checks)

SpecFuzzy == InitFuzzy /\ [][NextFuzzy]_vars

\* -------------------------------------------- fuzzy_match on named inputs
\* The strings of the tests of fuzzy.rs and of the names that the providers
\* pass as targets.
Chrome == <<"c", "h", "r", "o", "m", "e">>
Gc == <<"g", "c">>
Xyz == <<"x", "y", "z">>
GoogleChrome == <<"G", "o", "o", "g", "l", "e", " ", "C", "h", "r", "o", "m", "e">>
Abcdef == <<"a", "b", "c", "d", "e", "f">>
Bcdef == <<"b", "c", "d", "e", "f">>
Abcdf == <<"a", "b", "c", "d", "f">>

\* A name of 16 characters with "a" at offset 13 and "b" at offset 15.
LateMatchName == [i \in 1..16 |-> IF i = 14 THEN "a" ELSE IF i = 16 THEN "b" ELSE "x"]

\* A name of 53 characters with "a" at offset 1 only.
LongName == [i \in 1..53 |-> IF i = 2 THEN "a" ELSE "x"]

ScoreQueries == {<<>>, <<"a">>, <<"a", "b">>, Gc, Xyz, Chrome, Bcdef, Abcdf}
ScoreTargets == {<<>>, <<"a">>, Chrome, GoogleChrome, Abcdef, LateMatchName, LongName}

\* The arguments of a call of fuzzy_match are chosen among the named inputs.
InitScores ==
    /\ plugins = <<>>
    /\ op = "arguments"
    /\ query \in ScoreQueries
    /\ target \in ScoreTargets
    /\ value = <<>>
    /\ limit = 0
    /\ arg = NoResult
    /\ searchLog = <<>>
    /\ results = <<>>
    /\ initLog = <<>>
    /\ execLog = <<>>
    /\ ret = "Ok"
    /\ phase = "new"
    /\ items = <<>>
    /\ active_plugin_id = NoPlugin
    /\ delegate_active_plugin_id = NoPlugin
    /\ dismissed = FALSE
    /\ fallbackLog = <<>>
    /\ provider = <<>>
    /\ threads = [t \in Threads |-> IdleThread]
    /\ window_handle = None
    /\ visibility = "Hidden"
    /\ wmCalls = [t \in Threads |-> IdleCall]

SpecScores == InitScores /\ [][NextFuzzy]_vars

\* ------------------------------------------------- highlight_matches calls
HighlightChars == {"a", "A", "b", "[", "]", "DOTTED_I"}

\* The strings of at most n characters given to highlight_matches.
HighlightStrings(n) == UNION {[1..k -> HighlightChars] : k \in 0..n}

\* The arguments of a call of highlight_matches are chosen.
InitHighlight ==
    /\ plugins = <<>>
    /\ op = "arguments"
    /\ query \in HighlightStrings(MaxQueryLen)
    /\ target \in HighlightStrings(MaxTargetLen)
    /\ value = <<>>
    /\ limit = 0
    /\ arg = NoResult
    /\ searchLog = <<>>
    /\ results = <<>>
    /\ initLog = <<>>
    /\ execLog = <<>>
    /\ ret = "Ok"
    /\ phase = "new"
    /\ items = <<>>
    /\ active_plugin_id = NoPlugin
    /\ delegate_active_plugin_id = NoPlugin
    /\ dismissed = FALSE
    /\ fallbackLog = <<>>
    /\ provider = <<>>
    /\ threads = [t \in Threads |-> IdleThread]
    /\ window_handle = None
    /\ visibility = "Hidden"
    /\ wmCalls = [t \in Threads |-> IdleCall]

\* The call highlight_matches(query, target).
HighlightMatches ==
    /\ op = "arguments"
    /\ op' = "highlight_matches"
    /\ UNCHANGED concVars
    /\ value' = highlight_matches(query, target)
    /\ UNCHANGED <<query, target, limit, arg, searchLog, results, initLog,
                   execLog, ret, plugins, uiVars, provider>>

NextHighlight == HighlightMatches

SpecHighlight == InitHighlight /\ [][NextHighlight]_vars

\* ------------------------------------- threads sharing one PluginManager
\* search_all and execute take &self, so several threads can be in them at
\* once; register and initialize_all take &mut self and have returned before
\* the manager is shared.  A step is one lock(), one provider operation
\* together with the drop of the guard that ends its block, or one return.
MaxCalls == 1

\* The registries that the threads share.
LockRegistries == {<<PluginA, PluginB>>, <<PluginBad, PluginOff>>}

LockQueries == {<<"a">>}
LockLimits == {MaxLimit}

LockResults ==
    { Result(<<"b", ":", "x">>, 100, ExecCmd(<<"x">>)),
      Result(<<"c", ":", "x">>, 300, ExecCmd(<<"x">>)) }

\* The manager is built and handed to the threads.
InitLocks ==
    /\ plugins \in LockRegistries
    /\ op = "shared"
    /\ query = <<>>
    /\ limit = 0
    /\ arg = NoResult
    /\ searchLog = <<>>
    /\ results = <<>>
    /\ initLog = <<>>
    /\ execLog = <<>>
    /\ ret = "Ok"
    /\ phase = "new"
    /\ items = <<>>
    /\ active_plugin_id = NoPlugin
    /\ delegate_active_plugin_id = NoPlugin
    /\ dismissed = FALSE
    /\ fallbackLog = <<>>
    /\ target = <<>>
    /\ value = <<>>
    /\ provider = <<>>
    /\ threads = [t \in Threads |-> IdleThread]
    /\ window_handle = None
    /\ visibility = "Hidden"
    /\ wmCalls = [t \in Threads |-> IdleCall]

\* The Mutex of the i-th provider is not locked.
Free(i) == \A u \in Threads : i \notin threads[u].holds

\* The thread is back in its caller.
Returned(t) == [IdleThread EXCEPT !.calls = threads[t].calls]

lockFrame == <<fnVars, provider, uiVars, plugins, window_handle, visibility,
               wmCalls>>

\* Thread t enters search_all(q, l).
CallSearchAll(t, q, l) ==
    /\ threads[t].pc = "idle"
    /\ threads[t].calls < MaxCalls
    /\ threads' = [threads EXCEPT ![t] =
                      [IdleThread EXCEPT !.pc = "lock", !.call = "search_all",
                                         !.i = 1, !.query = q, !.limit = l,
                                         !.calls = threads[t].calls + 1]]
    /\ UNCHANGED <<apiVars, uiVars, fnVars, provider, window_handle,
                   visibility, wmCalls>>

\* Thread t enters execute(r).
CallExecute(t, r) ==
    /\ threads[t].pc = "idle"
    /\ threads[t].calls < MaxCalls
    /\ threads' = [threads EXCEPT ![t] =
                      [IdleThread EXCEPT !.pc = "lock", !.call = "execute",
                                         !.i = 1, !.arg = r,
                                         !.calls = threads[t].calls + 1]]
    /\ UNCHANGED <<apiVars, uiVars, fnVars, provider, window_handle,
                   visibility, wmCalls>>

\* A lock() that does not wait for the holder of the Mutex.
LockProvider_barging(t) ==
    /\ threads[t].pc = "lock"
    /\ threads[t].i <= Len(plugins)
    /\ threads' = [threads EXCEPT ![t].pc = "held",
                                  ![t].holds = @ \cup {threads[t].i}]
    /\ UNCHANGED <<apiVars, uiVars, fnVars, provider, window_handle,
                   visibility, wmCalls>>

\* plugin.lock() in the loop of search_all or execute: the thread waits
\* until the Mutex of the provider is free and takes it.
LockProvider(t) ==
    /\ threads[t].pc = "lock"
    /\ threads[t].i <= Len(plugins)
    /\ Free(threads[t].i)
    /\ threads' = [threads EXCEPT ![t].pc = "held",
                                  ![t].holds = @ \cup {threads[t].i}]
    /\ UNCHANGED <<apiVars, uiVars, fnVars, provider, window_handle,
                   visibility, wmCalls>>

\* The body of the loop of search_all under the guard, and the drop of the
\* guard at the end of the block.
SearchProvider(t) ==
    LET th == threads[t]
    IN /\ th.call = "search_all"
       /\ th.pc = "held"
       /\ threads' = [threads EXCEPT ![t] =
                         [th EXCEPT !.acc = search_all_step(th.acc, plugins,
                                                th.i, th.query, th.limit),
                                    !.holds = @ \ {th.i},
                                    !.i = th.i + 1,
                                    !.pc = "lock"]]
       /\ UNCHANGED <<apiVars, uiVars, fnVars, provider, window_handle,
                      visibility, wmCalls>>

\* The end of search_all: sort, truncate, return.
ReturnSearchAll(t) ==
    LET th == threads[t]
    IN /\ th.call = "search_all"
       /\ th.pc = "lock"
       /\ th.i > Len(plugins)
       /\ threads' = [threads EXCEPT ![t] = Returned(t)]
       /\ op' = "search_all"
       /\ query' = th.query
       /\ limit' = th.limit
       /\ arg' = NoResult
       /\ searchLog' = th.acc.log
       /\ results' = Truncate(sort_by_score(th.acc.merged), th.limit)
       /\ initLog' = <<>>
       /\ execLog' = <<>>
       /\ ret' = "Ok"
       /\ UNCHANGED lockFrame

\* The body of the loop of execute under the guard: the owner executes the
\* result and execute returns, which drops the guard; any other provider
\* is unlocked and the loop goes on.
ExecuteProvider(t, spawnOk) ==
    LET th == threads[t]
        out == PluginExecute(plugins[th.i], th.arg, spawnOk)
    IN /\ th.call = "execute"
       /\ th.pc = "held"
       /\ IF Owns(plugins[th.i].id, th.arg)
          THEN /\ threads' = [threads EXCEPT ![t] = Returned(t)]
               /\ op' = "execute"
               /\ query' = <<>>
               /\ limit' = 0
               /\ arg' = th.arg
               /\ searchLog' = <<>>
               /\ results' = <<>>
               /\ initLog' = <<>>
               /\ execLog' = <<[idx |-> th.i, ret |-> out]>>
               /\ ret' = out
               /\ UNCHANGED lockFrame
          ELSE /\ threads' = [threads EXCEPT ![t].holds = @ \ {th.i},
                                            ![t].i = th.i + 1,
                                            ![t].pc = "lock"]
               /\ UNCHANGED <<apiVars, lockFrame>>

\* The end of execute when no provider owns the result.
ReturnNoOwner(t) ==
    LET th == threads[t]
    IN /\ th.call = "execute"
       /\ th.pc = "lock"
       /\ th.i > Len(plugins)
       /\ threads' = [threads EXCEPT ![t] = Returned(t)]
       /\ op' = "execute"
       /\ query' = <<>>
       /\ limit' = 0
       /\ arg' = th.arg
       /\ searchLog' = <<>>
       /\ results' = <<>>
       /\ initLog' = <<>>
       /\ execLog' = <<>>
       /\ ret' = "Err(no_owner)"
       /\ UNCHANGED lockFrame

\* The steps of thread t inside a call.
Proceed(t) ==
    \/ LockProvider(t)
    \/ SearchProvider(t)
    \/ ReturnSearchAll(t)
    \/ \E spawnOk \in BOOLEAN : ExecuteProvider(t, spawnOk)
    \/ ReturnNoOwner(t)

NextLocks ==
    \/ \E t \in Threads, q \in LockQueries, l \in LockLimits :
           CallSearchAll(t, q, l)
    \/ \E t \in Threads, r \in LockResults : CallExecute(t, r)
    \/ \E t \in Threads : LockProvider(t)
    \/ \E t \in Threads : SearchProvider(t)
    \/ \E t \in Threads : ReturnSearchAll(t)
    \/ \E t \in Threads, spawnOk \in BOOLEAN : ExecuteProvider(t, spawnOk)
    \/ \E t \in Threads : ReturnNoOwner(t)

SpecLocks == InitLocks /\ [][NextLocks]_vars

\* The scheduler runs every thread that can take a step.
SpecLocksFair == SpecLocks /\ \A t \in Threads : WF_vars(Proceed(t))

\* ------------------------------------------- a long-lived ClipboardPlugin
\* One ClipboardPlugin object over a run long enough to fill its history.
\* Every call that reads the clock reads a later millisecond than the call
\* before it; the run is followed for MaxEntries entries past max_history.
LastTick == max_history + MaxEntries

\* ClipboardPlugin::new
InitClipboard ==
    /\ plugins = <<>>
    /\ op = "new_provider"
    /\ query = <<>>
    /\ limit = 0
    /\ arg = NoResult
    /\ searchLog = <<>>
    /\ results = <<>>
    /\ initLog = <<>>
    /\ execLog = <<>>
    /\ ret = "Ok"
    /\ phase = "new"
    /\ items = <<>>
    /\ active_plugin_id = NoPlugin
    /\ delegate_active_plugin_id = NoPlugin
    /\ dismissed = FALSE
    /\ fallbackLog = <<>>
    /\ target = <<>>
    /\ value = <<>>
    /\ provider = <<ClipboardPlugin>>
    /\ threads = [t \in Threads |-> IdleThread]
    /\ window_handle = None
    /\ visibility = "Hidden"
    /\ wmCalls = [t \in Threads |-> IdleCall]

\* The millisecond of the next call.
Tick ==
    IF provider[1].history = <<>> THEN 1
    ELSE Head(provider[1].history).timestamp + 1

\* add_entry(text) on the object; the text is kept in query.
ClipboardAddEntry(text) ==
    /\ Tick <= LastTick
    /\ provider' = <<add_entry(provider[1], text, Tick)>>
    /\ ProviderCall("add_entry", text, 0, <<>>, "Ok")

\* initialize() on the object while the system clipboard holds text.
ClipboardInitializeCall(text) ==
    /\ Tick <= LastTick
    /\ provider' = <<ClipboardInitialize(provider[1], text, Tick).plugin>>
    /\ ProviderCall("initialize", text, 0, <<>>, "Ok")

\* refresh() on the object.
ClipboardRefresh ==
    /\ provider' = <<clipboard_refresh(provider[1])>>
    /\ ProviderCall("refresh", <<>>, 0, <<>>, "Ok")

NextClipboard ==
    \/ \E text \in ClipTexts \cup {<<>>} : ClipboardAddEntry(text)
    \/ \E text \in ClipTexts \cup {<<>>} : ClipboardInitializeCall(text)
    \/ ClipboardRefresh

SpecClipboard == InitClipboard /\ [][NextClipboard]_vars

\* ------------------------------- threads sharing the global WindowManager
\* global_window_manager() hands the one WindowManager to every caller and
\* all its methods take &self.  window_handle and visibility sit behind two
\* separate Mutexes; a step is one critical section.  The guard that an
\* `if self.window_handle.lock().unwrap().is_some()` takes is a temporary
\* of the condition and is dropped before the block runs; the guard of
\* set_window_handle is a local and lives until the method returns.
WindowHandle == 1

WindowMethods ==
    {"set_window_handle", "toggle_window", "show_window", "hide_window",
     "minimize_window", "close_window"}

\* The method whose body thread t runs: the one it called, or the one
\* that toggle_window called for it.
Running(t) ==
    IF wmCalls[t].inner # "none" THEN wmCalls[t].inner ELSE wmCalls[t].method

\* No thread is inside set_window_handle with the guard of window_handle.
HandleUnlocked == \A u \in Threads : wmCalls[u].pc # "holding_handle"

wmFrame == <<apiVars, uiVars, fnVars, provider, threads>>

\* Thread t calls a method of the WindowManager.
WindowCall(t, method) ==
    /\ wmCalls[t].pc = "idle"
    /\ wmCalls' = [wmCalls EXCEPT ![t] =
                      [IdleCall EXCEPT !.pc = "start", !.method = method]]
    /\ UNCHANGED <<window_handle, visibility, wmFrame>>

\* set_window_handle: the handle is locked and set; the guard stays.
SetHandle(t) ==
    /\ wmCalls[t].pc = "start"
    /\ wmCalls[t].method = "set_window_handle"
    /\ HandleUnlocked
    /\ window_handle' = Some(WindowHandle)
    /\ wmCalls' = [wmCalls EXCEPT ![t].pc = "holding_handle"]
    /\ UNCHANGED <<visibility, wmFrame>>

\* set_window_handle: the visibility is set and the method returns, which
\* drops the guard of the handle.
SetHandleVisible(t) ==
    /\ wmCalls[t].pc = "holding_handle"
    /\ visibility' = "Visible"
    /\ wmCalls' = [wmCalls EXCEPT ![t] = IdleCall]
    /\ UNCHANGED <<window_handle, wmFrame>>

\* toggle_window: the visibility is read and hide_window or show_window
\* is called.
ToggleRead(t) ==
    /\ wmCalls[t].pc = "start"
    /\ wmCalls[t].method = "toggle_window"
    /\ wmCalls[t].inner = "none"
    /\ wmCalls' = [wmCalls EXCEPT ![t].inner =
                      IF visibility = "Visible" THEN "hide_window"
                      ELSE "show_window"]
    /\ UNCHANGED <<window_handle, visibility, wmFrame>>

\* The condition of show_window, hide_window, minimize_window and
\* close_window: the handle is locked, tested and unlocked.
CheckHandle(t) ==
    /\ wmCalls[t].pc = "start"
    /\ Running(t) \in {"show_window", "hide_window", "minimize_window",
                     "close_window"}
    /\ HandleUnlocked
    /\ wmCalls' = [wmCalls EXCEPT ![t] =
                      IF ~window_handle.some THEN IdleCall
                      ELSE IF Running(t) = "close_window"
                      THEN [@ EXCEPT !.pc = "clear"]
                      ELSE [@ EXCEPT !.pc = "write"]]
    /\ UNCHANGED <<window_handle, visibility, wmFrame>>

\* close_window: the handle is locked again and cleared.
ClearHandle(t) ==
    /\ wmCalls[t].pc = "clear"
    /\ HandleUnlocked
    /\ window_handle' = None
    /\ wmCalls' = [wmCalls EXCEPT ![t].pc = "write"]
    /\ UNCHANGED <<visibility, wmFrame>>

\* The visibility that a method writes.
Written(method) ==
    CASE method = "show_window" -> "Visible"
      [] method = "minimize_window" -> "Minimized"
      [] OTHER -> "Hidden"

\* The write of the visibility that ends show_window, hide_window,
\* minimize_window and close_window.
WriteVisibility(t) ==
    /\ wmCalls[t].pc = "write"
    /\ visibility' = Written(Running(t))
    /\ wmCalls' = [wmCalls EXCEPT ![t] = IdleCall]
    /\ UNCHANGED <<window_handle, wmFrame>>

NextWindow ==
    \/ \E t \in Threads, method \in WindowMethods : WindowCall(t, method)
    \/ \E t \in Threads : SetHandle(t)
    \/ \E t \in Threads : SetHandleVisible(t)
    \/ \E t \in Threads : ToggleRead(t)
    \/ \E t \in Threads : CheckHandle(t)
    \/ \E t \in Threads : ClearHandle(t)
    \/ \E t \in Threads : WriteVisibility(t)

SpecWindow == Init /\ [][NextWindow]_vars

\* ================================================================== claims
\* The ownership convention of the routing protocol, spelled out for the
\* properties: the result id starts with "<id>:" or equals <id>.
RoutesTo(pid, rid) ==
    \/ Len(rid) > Len(pid) /\ \A k \in 1..Len(pid) : rid[k] = pid[k]
                           /\ rid[Len(pid) + 1] = ":"
    \/ rid = pid

Indices(s) == 1..Len(s)

\* The registry indices of the enabled providers, in registration order.
EnabledIndices ==
    SelectSeq([i \in Indices(plugins) |-> i], LAMBDA i : plugins[i].enabled)

\* What the enabled providers that answer Ok contribute to the last search.
Contributions ==
    UNION { Range(Stamp(PluginSearch(plugins[i], query, limit).out, i)) :
            i \in {j \in Indices(plugins) :
                     /\ plugins[j].enabled
                     /\ PluginSearch(plugins[j], query, limit).ok} }

\* r was concatenated before c.
MergedBefore(r, c) ==
    r.prov < c.prov \/ (r.prov = c.prov /\ r.pos < c.pos)

\* r ranks above c in the sorted merge.
RanksAbove(r, c) ==
    r.score > c.score \/ (r.score = c.score /\ MergedBefore(r, c))

\* C1: search_all with an empty query returns an empty list and searches no
\* provider, whatever is registered and whatever the limit.
C1_EmptyQueryShortCircuit ==
    (op = "search_all" /\ query = EmptyQuery)
        => (results = <<>> /\ searchLog = <<>>)

\* C2: for a non-empty query the providers searched by one search_all are
\* exactly the enabled ones, in registration order, once each, with the
\* caller's query and limit; no result of a disabled provider is returned.
C2_FanOutEnabledInOrder ==
    (op = "search_all" /\ query # EmptyQuery)
        => /\ Len(searchLog) = Len(EnabledIndices)
           /\ \A k \in Indices(searchLog) :
                 /\ searchLog[k].idx = EnabledIndices[k]
                 /\ searchLog[k].query = query
                 /\ searchLog[k].limit = limit
           /\ \A k \in Indices(results) : plugins[results[k].prov].enabled

C2_Witness ==
    /\ op = "search_all" /\ query # EmptyQuery
    /\ \E i, j \in Indices(plugins) :
          i < j /\ ~plugins[i].enabled /\ plugins[j].enabled
    /\ results # <<>>

\* C3: the list search_all returns is sorted by non-increasing score, and
\* results of equal score keep the order of their concatenation: earlier
\* registered provider first, a provider's own order within it.
C3_SortedStable ==
    op = "search_all"
        => \A i, j \in Indices(results) :
              i < j => \/ results[i].score > results[j].score
                       \/ /\ results[i].score = results[j].score
                          /\ MergedBefore(results[i], results[j])

C3_Witness ==
    /\ op = "search_all"
    /\ \E i, j \in Indices(results) :
          i < j /\ results[i].score = results[j].score
                /\ results[i].prov < results[j].prov
    /\ \E i, j \in Indices(results) :
          i < j /\ results[i].score > results[j].score
                /\ results[i].prov > results[j].prov

\* C4: search_all returns at most limit results (limit 0 included), and they
\* are the limit highest-ranked entries of the sorted merge of all provider
\* contributions.
C4_TruncatedToBest ==
    op = "search_all"
        => /\ Len(results) <= limit
           /\ Len(results) = Min(limit, Cardinality(Contributions))
           /\ Range(results) \subseteq Contributions
           /\ \A r \in Range(results) :
                 \A c \in Contributions \ Range(results) : RanksAbove(r, c)

C4_Witness ==
    /\ op = "search_all"
    /\ limit >= 1
    /\ Len(results) = limit
    /\ Cardinality(Contributions) > limit
    /\ \E c \in Contributions \ Range(results) : c.prov < results[1].prov

\* The registry in which every provider whose search fails contributes an
\* empty list instead.
Healed(ps) ==
    [i \in Indices(ps) |->
        IF PluginSearch(ps[i], query, limit).ok THEN ps[i]
        ELSE [ps[i] EXCEPT !.searchOk = TRUE, !.hits = <<>>]]

\* C5: when a provider's search returns an error, search_all still returns
\* normally, with the result it would return had that provider contributed
\* an empty list.
C5_SearchErrorIsolated ==
    op = "search_all"
        => /\ ret = "Ok"
           /\ results = search_all(Healed(plugins), query, limit).results
           /\ \A c \in Contributions :
                 Cardinality({d \in Contributions : RanksAbove(d, c)}) < limit
                     => c \in Range(results)

C5_Witness ==
    /\ op = "search_all"
    /\ \E k \in Indices(searchLog) :
          /\ ~searchLog[k].ok
          /\ \E r \in Range(results) : r.prov < searchLog[k].idx
          /\ \E r \in Range(results) : r.prov > searchLog[k].idx

\* C6: initialize_all initializes every registered provider once, in
\* registration order, also after an earlier initialize failed, and returns
\* success.
C6_InitializeAllVisitsEvery ==
    op = "initialize_all"
        => /\ ret = "Ok"
           /\ Len(initLog) = Len(plugins)
           /\ \A i \in Indices(initLog) : initLog[i].idx = i

C6_Witness ==
    /\ op = "initialize_all"
    /\ \E i, j \in Indices(initLog) : i < j /\ ~initLog[i].ok /\ initLog[j].ok

Owners == {i \in Indices(plugins) : RoutesTo(plugins[i].id, arg.id)}

FirstOwner == CHOOSE i \in Owners : \A j \in Owners : i <= j

\* C7: execute delegates to exactly one provider, the first registered one
\* whose id owns the result id, calls no other provider and returns that
\* provider's outcome unchanged.
C7_ExecuteFirstOwner ==
    (op = "execute" /\ Owners # {})
        => /\ Len(execLog) = 1
           /\ execLog[1].idx = FirstOwner
           /\ ret = execLog[1].ret
           /\ ret \in {"Ok", "Err(provider)"}

C7_Witness ==
    /\ op = "execute"
    /\ Cardinality(Owners) >= 2
    /\ ret = "Err(provider)"
    /\ \E j \in Owners : plugins[j].execOk

\* C8: execute returns the 'no owning provider' error exactly when no
\* registered provider owns the result id, and then calls no provider.
C8_NoOwnerIff ==
    op = "execute"
        => /\ (ret = "Err(no_owner)") <=> (Owners = {})
           /\ (ret = "Err(no_owner)") => (execLog = <<>>)

C8_Witness ==
    /\ op = "execute"
    /\ ret = "Err(no_owner)"
    /\ execLog = <<>>
    /\ Len(plugins) >= 2

\* C9: every result a registered provider's search returns carries an id
\* that routes to that provider, so that execute on it finds an owner.
C9_SearchResultsRouteToOwner ==
    op = "search_all"
        => \A k \in Indices(results) :
              RoutesTo(plugins[results[k].prov].id, results[k].id)

\* C10: a result whose id starts with "__plugin__:" is never handed to a
\* provider's execute: confirming it selects the provider named in its
\* action data and nothing else happens, the window is not dismissed,
\* whatever provider ids are registered.
C10_SentinelNeverExecuted ==
    (op = "confirm" /\ StartsWith(arg.id, PluginSentinel))
        => /\ execLog = <<>>
           /\ fallbackLog = <<>>
           /\ ~dismissed
           /\ active_plugin_id = SomePlugin(arg.action.data)
           /\ delegate_active_plugin_id = SomePlugin(arg.action.data)

C10_Witness ==
    /\ op = "confirm"
    /\ StartsWith(arg.id, PluginSentinel)
    /\ \E i \in Indices(plugins) : RoutesTo(plugins[i].id, arg.id)
    /\ active_plugin_id.some

\* The <id> of a picker result id "__plugin__:<id>".
PickedId(rid) == SubSeq(rid, Len(PluginSentinel) + 1, Len(rid))

\* The last operation selected a provider through a picker result.
Selected == op = "confirm" /\ StartsWith(arg.id, PluginSentinel)

\* A search made while the list holds an active provider.
ScopedSearch ==
    /\ op = "perform_search"
    /\ delegate_active_plugin_id.some
    /\ query # <<>>

\* C11: after a "__plugin__:<id>" result is confirmed the active provider
\* is <id>; it stays so until it is cleared or another one is selected, and
\* meanwhile every search with a non-empty query is answered by
\* search_plugin(<id>, query, limit) alone: at most one provider is
\* searched, it is registered under <id>, every item is one of its hits and
\* none is a picker result.  Selecting and clearing leave the registry as
\* it was.
C11_ActiveProviderScopesSearch ==
    /\ [](Selected => delegate_active_plugin_id = SomePlugin(PickedId(arg.id)))
    /\ [](ScopedSearch =>
            /\ Len(searchLog) <= 1
            /\ \A k \in Indices(searchLog) :
                  /\ plugins[searchLog[k].idx].id = delegate_active_plugin_id.val
                  /\ searchLog[k].query = query
                  /\ searchLog[k].limit = SearchLimit
            /\ \A k \in Indices(items) :
                  /\ searchLog # <<>>
                  /\ items[k].prov = searchLog[1].idx
                  /\ ~StartsWith(items[k].id, PluginSentinel)
            /\ items = search_plugin(plugins, delegate_active_plugin_id.val,
                                     query, SearchLimit).results)
    /\ [][ /\ (delegate_active_plugin_id.some
                 /\ op' # "clear_active_plugin" /\ ~Selected')
              => delegate_active_plugin_id' = delegate_active_plugin_id
           /\ (Selected' \/ op' = "clear_active_plugin")
              => plugins' = plugins ]_vars

C11_Witness ==
    /\ ScopedSearch
    /\ items # <<>>
    /\ StartsWith(query, <<"/">>)
    /\ \E i \in Range(EnabledIndices) :
          plugins[i].id # delegate_active_plugin_id.val
    /\ search_all(plugins, query, SearchLimit).results # items

\* The query reads "/<prefix> <rest>": n is the place of its first space.
\* <prefix> is free of '/' and ' ', <rest> is what follows the space.
SpaceAt(q, n) ==
    /\ n \in 2..Len(q)
    /\ q[1] = "/"
    /\ q[n] = " "
    /\ \A k \in 2..(n - 1) : q[k] \notin {" ", "/"}

\* A search typed as "/<prefix> <rest>", rest non-empty, no active provider.
PrefixedSearch(n) ==
    /\ op = "perform_search"
    /\ ~delegate_active_plugin_id.some
    /\ SpaceAt(query, n)
    /\ n < Len(query)

\* C12: a query "/<prefix> <rest>" with non-empty rest and no active
\* provider returns exactly search_plugin(<prefix>, rest, limit): at most
\* one provider is searched, the one registered under <prefix>, it is given
\* rest and not the whole query, every item is one of its hits and no item
\* is a picker result.
C12_PrefixedQueryForwarded ==
    \A n \in Indices(query) :
        PrefixedSearch(n) =>
            LET prefix == SubSeq(query, 2, n - 1)
                rest == SubSeq(query, n + 1, Len(query))
            IN /\ items = search_plugin(plugins, prefix, rest,
                                        SearchLimit).results
               /\ Len(searchLog) <= 1
               /\ \A k \in Indices(searchLog) :
                     /\ plugins[searchLog[k].idx].id = prefix
                     /\ searchLog[k].query = rest
                     /\ searchLog[k].limit = SearchLimit
               /\ \A k \in Indices(items) :
                     /\ searchLog # <<>>
                     /\ items[k].prov = searchLog[1].idx
                     /\ ~StartsWith(items[k].id, PluginSentinel)

C12_Witness ==
    /\ \E n \in Indices(query) : PrefixedSearch(n)
    /\ items # <<>>
    /\ Len(searchLog) = 1
    /\ \E i \in Range(EnabledIndices) : i # searchLog[1].idx

\* The query reads "/<prefix>" with nothing after the prefix but, at most,
\* the space that ends it.
PickerQuery(q) ==
    /\ q # <<>>
    /\ q[1] = "/"
    /\ \A k \in 2..Len(q) : q[k] = " " => k = Len(q)

\* The text between the leading '/' and the first space.
PickerPrefix(q) ==
    IF q[Len(q)] = " " THEN SubSeq(q, 2, Len(q) - 1) ELSE SubSeq(q, 2, Len(q))

\* A search typed as "/<prefix>" with no active provider.
PickerSearch ==
    /\ op = "perform_search"
    /\ ~delegate_active_plugin_id.some
    /\ PickerQuery(query)

\* One picker result per id of match_plugin_ids(prefix), in that order,
\* with id "__plugin__:<id>", score 1000 and action Custom{label, <id>}.
PickerList(prefix, label) ==
    LET ids == match_plugin_ids(plugins, prefix)
    IN [k \in Indices(ids) |->
          [id |-> <<"_", "_", "p", "l", "u", "g", "i", "n", "_", "_", ":">>
                      \o ids[k],
           score |-> 1000,
           action |-> [tag |-> "Custom", plugin |-> label, data |-> ids[k]],
           prov |-> 0, pos |-> 0]]

C16_SearchWithinLimit ==
    op = "search" => Len(results) <= limit

\* C17: no two results of one search call carry the same id.
C17_ResultIdsDistinct ==
    op = "search"
        => \A i, j \in Indices(results) :
              i # j => results[i].id # results[j].id

\* id begins with the characters of prefix, compared one by one.
HasPrefix(id, prefix) ==
    /\ Len(prefix) <= Len(id)
    /\ \A k \in Indices(prefix) : id[k] = prefix[k]

\* The registry indices whose id begins with the last query.
PrefixHits == {i \in Indices(plugins) : HasPrefix(plugins[i].id, query)}

\* The k-th smallest member of a set of indices.
Nth(S, k) == CHOOSE i \in S : Cardinality({j \in S : j < i}) = k - 1

\* C14: match_plugin_ids(prefix) returns exactly the ids of the registered
\* providers whose id starts with prefix, compared case-sensitively, in
\* registration order: one entry per such provider, none added, none left
\* out.
C14_MatchPluginIdsExact ==
    op = "match_plugin_ids"
        => /\ Len(value) = Cardinality(PrefixHits)
           /\ \A k \in Indices(value) : value[k] = plugins[Nth(PrefixHits, k)].id

C14_Witness ==
    /\ op = "match_plugin_ids"
    /\ Len(value) = 2
    /\ Len(plugins) = 3
    /\ ~HasPrefix(plugins[2].id, query)
    /\ query # <<>>

\* The registry of the scenario: "calculator", "custom_commands",
\* "clipboard", in that order, asked for the prefix "ca".
ScenarioCa ==
    /\ op = "match_plugin_ids"
    /\ [i \in Indices(plugins) |-> plugins[i].id]
           = <<CalculatorId, CustomCommandsId, ClipboardId>>
    /\ query = <<"c", "a">>

\* C15 as stated: with providers registered in the order "calculator",
\* "custom_commands", "clipboard", match_plugin_ids("ca") returns
\* ["calculator", "custom_commands"].
C15_ScenarioAsStated ==
    ScenarioCa => value = <<CalculatorId, CustomCommandsId>>

\* C15, amended: with providers registered in the order "calculator",
\* "custom_commands", "clipboard", match_plugin_ids("ca") returns
\* ["calculator"], and match_plugin_ids("c") returns all three ids in
\* registration order.
C15_Scenario ==
    /\ ScenarioCa => value = <<CalculatorId>>
    /\ (op = "match_plugin_ids" /\ query = <<"c">>
        /\ [i \in Indices(plugins) |-> plugins[i].id]
               = <<CalculatorId, CustomCommandsId, ClipboardId>>)
       => value = <<CalculatorId, CustomCommandsId, ClipboardId>>

C15_Witness == ScenarioCa /\ value = <<CalculatorId>>

\* What the registry records of its i-th provider: which object it is, its
\* id and its enabled flag.
Entry(ps, i) ==
    [name |-> ps[i].name, kind |-> ps[i].kind, id |-> ps[i].id,
     enabled |-> ps[i].enabled]

\* C18: no operation of the orchestrator shrinks or rewrites the registry.
\* Every step keeps each registered provider at its place with its id and
\* enabled flag; initialize_all (failures included), search_all and execute
\* keep the length, and register appends exactly one provider, whether or
\* not its id is registered already.
C18_RegistryFrame ==
    [][ /\ \A i \in Indices(plugins) :
              i <= Len(plugins') /\ Entry(plugins', i) = Entry(plugins, i)
        /\ op' # "register" => Len(plugins') = Len(plugins)
        /\ op' = "register" => Len(plugins') = Len(plugins) + 1 ]_vars

C18_Witness ==
    /\ op = "initialize_all"
    /\ Len(plugins) = 3
    /\ plugins[1].id = plugins[3].id
    /\ \E k \in Indices(initLog) : ~initLog[k].ok

\* C19: execute_result dispatches by action tag only when execute failed
\* for want of an owning provider; when an owner exists and its execute
\* returns an error, no side effect is attempted through the dispatch.
C19_FallbackOnlyWithoutOwner ==
    op = "confirm"
        => /\ fallbackLog # <<>> => (Owners = {} /\ ret = "Err(no_owner)")
           /\ ret = "Err(provider)" => fallbackLog = <<>>

\* The strings that differ from s in letter case only.
CaseVariants(s) ==
    {v \in [1..Len(s) -> FuzzyChars] :
        \A i \in Indices(s) : LowerChar(v[i]) = LowerChar(s[i])}

\* C20: fuzzy_match is case-insensitive in both arguments: it returns the
\* same (matched, score) for every query and target that differ from the
\* given ones in letter case only.
C20_FuzzyMatchCaseInsensitive ==
    op = "fuzzy_match"
        => \A q \in CaseVariants(query), t \in CaseVariants(target) :
              fuzzy_match(q, t, value.checks) = value.out

\* The characters of q occur in t in the same relative order.
RECURSIVE IsSubsequence(_, _)
IsSubsequence(q, t) ==
    \/ q = <<>>
    \/ /\ t # <<>>
       /\ \/ Head(q) = Head(t) /\ IsSubsequence(Tail(q), Tail(t))
          \/ IsSubsequence(q, Tail(t))

\* The u32 score n as fuzzy_match returns it.
Score(n) == [hi |-> n \div U16, lo |-> n % U16]

\* C21: fuzzy_match returns matched = true exactly when the case-folded
\* query is a subsequence of the case-folded target; the empty query gives
\* (true, 0) and a pair that does not match gives (false, 0).
C21_MatchedIffSubsequence ==
    op = "fuzzy_match"
        => /\ ~value.out.panic
           /\ value.out.matched
                  = IsSubsequence(to_lowercase(query), to_lowercase(target))
           /\ query = <<>> => value.out.score = Score(0)
           /\ ~value.out.matched => value.out.score = Score(0)

\* The score that the substring path is stated to give.
SubstringScore(q, t) ==
    100 + (IF StartsWith(t, q) THEN 50 ELSE 0)
        + (IF Contains(t, <<" ">> \o q) THEN 30 ELSE 0)
        - 2 * (len(t) - len(q))

\* C22: a non-empty query whose case-folded form is a substring of the
\* case-folded target matches with score 100 + 50 (target starts with
\* query) + 30 (target holds a space followed by query) - 2 * (len(target)
\* - len(query)); fuzzy_match("chrome", "Google Chrome") scores 116.
C22_SubstringScore ==
    LET q == to_lowercase(query)
        t == to_lowercase(target)
    IN op = "fuzzy_match" /\ q # <<>> /\ Contains(t, q)
           => /\ ~value.out.panic
              /\ value.out.matched
              /\ SubstringScore(q, t) >= 0
              /\ value.out.score = Score(SubstringScore(q, t))
              /\ query = Chrome /\ target = GoogleChrome
                     => value.out.score = Score(116)

\* The target positions that the greedy left-to-right matching of q takes,
\* from position k on.
RECURSIVE GreedyPositions(_, _, _)
GreedyPositions(q, t, k) ==
    IF q = <<>> \/ k > Len(t) THEN {}
    ELSE IF t[k] = Head(q) THEN {k} \cup GreedyPositions(Tail(q), t, k + 1)
    ELSE GreedyPositions(q, t, k + 1)

\* R: the longest run of adjacent matched positions.
LongestRun(ps) ==
    LET runs == {n \in 0..Cardinality(ps) :
                    n = 0 \/ \E a \in ps : \A d \in 0..(n - 1) : a + d \in ps}
    IN CHOOSE n \in runs : \A m \in runs : m <= n

\* P: the offset in the target of the first matched character.
FirstPosition(t, ps) ==
    len(SubSeq(t, 1, (CHOOSE a \in ps : \A b \in ps : a <= b) - 1))

\* The score that the subsequence path is stated to give.
SubsequenceScore(q, t) ==
    LET ps == GreedyPositions(q, t, 1)
    IN 50 + 10 * LongestRun(ps) - 5 * FirstPosition(t, ps)
          + ((20 * len(q)) \div len(t))

\* C23: a query whose case-folded form is a subsequence but not a substring
\* of the case-folded target matches with score 50 + 10 * R - 5 * P +
\* floor(20 * len(query) / len(target)); the score of ("gc", "Google
\* Chrome") is greater than 0.
C23_SubsequenceScore ==
    LET q == to_lowercase(query)
        t == to_lowercase(target)
    IN op = "fuzzy_match" /\ IsSubsequence(q, t) /\ ~Contains(t, q)
           => /\ ~value.out.panic
              /\ value.out.matched
              /\ SubsequenceScore(q, t) >= 0
              /\ value.out.score = Score(SubsequenceScore(q, t))
              /\ query = Gc /\ target = GoogleChrome
                     => value.out.score # Score(0)

\* a < b for two u32 scores.
ScoreLess(a, b) == a.hi < b.hi \/ (a.hi = b.hi /\ a.lo < b.lo)

\* C24: for the target at hand, the query, when it matches by the substring
\* path, scores strictly higher than every query of the same length that
\* matches by the subsequence path only; ("gc", "Google Chrome") scores
\* less than ("chrome", "Google Chrome").
C24_SubstringOutranksSubsequence ==
    LET q == to_lowercase(query)
        t == to_lowercase(target)
    IN op = "fuzzy_match" /\ q # <<>> /\ Contains(t, q)
           => /\ \A other \in ScoreQueries :
                    LET o == to_lowercase(other)
                        r == fuzzy_match(other, target, value.checks)
                    IN len(o) = len(q) /\ IsSubsequence(o, t) /\ ~Contains(t, o)
                           => ~r.panic /\ ~value.out.panic
                              /\ ScoreLess(r.score, value.out.score)
              /\ query = Chrome /\ target = GoogleChrome
                     => ScoreLess(fuzzy_match(Gc, target, value.checks).score,
                                  value.out.score)

\* C25: the score arithmetic stays non-negative: for a matching pair the
\* length penalty of the substring path and the position penalty of the
\* subsequence path do not exceed the score accumulated before them, so
\* the u32 score neither wraps nor panics.
C25_ScoreNeverUnderflows ==
    LET q == to_lowercase(query)
        t == to_lowercase(target)
        ps == GreedyPositions(q, t, 1)
    IN op = "fuzzy_match" /\ q # <<>> /\ IsSubsequence(q, t)
           => /\ Contains(t, q)
                  => 2 * (len(t) - len(q)) <= SubstringScore(q, t)
                                                  + 2 * (len(t) - len(q))
              /\ ~Contains(t, q)
                  => 5 * FirstPosition(t, ps) <= 50 + 10 * LongestRun(ps)
              /\ ~value.out.panic
              /\ value.out.score.hi = 0

\* The text without its '[' and ']'.
StripBrackets(s) == SelectSeq(s, LAMBDA c : c \notin {"[", "]"})

\* C26 as stated: for every query and every target, removing every '['
\* and ']' from highlight_matches(query, target) yields the target.
C26_RoundTripAsStated ==
    op = "highlight_matches" => StripBrackets(value) = target

\* C26: for every query and every target that holds neither '[' nor ']'
\* (targets whose lower-casing changes the number of characters included),
\* removing every '[' and ']' from highlight_matches(query, target) yields
\* the target.
C26_RoundTrip ==
    op = "highlight_matches" /\ StripBrackets(target) = target
        => StripBrackets(value) = target

\* A match was bracketed in a target whose lower-casing is longer.
C26_Witness ==
    /\ op = "highlight_matches"
    /\ StripBrackets(target) = target
    /\ Len(to_lowercase(target)) > Len(target)
    /\ Len(value) > Len(target)

\* The number of characters that the first k characters of t lower to.
RECURSIVE LoweredLen(_, _)
LoweredLen(t, k) ==
    IF k = 0 THEN 0 ELSE LoweredLen(t, k - 1) + Len(LowerChars(t[k]))

\* The character of t that the j-th character of to_lowercase(t) comes from.
Origin(t, j) ==
    CHOOSE k \in 1..Len(t) : LoweredLen(t, k - 1) < j /\ j <= LoweredLen(t, k)

\* t with the characters at the positions in marked wrapped in '[' ']'.
RECURSIVE Bracketed(_, _, _)
Bracketed(t, marked, k) ==
    IF k > Len(t) THEN <<>>
    ELSE (IF k \in marked THEN <<"[", t[k], "]">> ELSE <<t[k]>>)
             \o Bracketed(t, marked, k + 1)

\* C27: highlight_matches wraps in '[' ']' exactly the target characters
\* that the greedy left-to-right match of the case-folded query consumes,
\* one pair per character and in the original letter case, and passes the
\* others through; when fuzzy_match reports a match of a non-empty query,
\* exactly len(query) characters are bracketed.
C27_HighlightGreedyMatch ==
    LET tl == to_lowercase(target)
        consumed == {Origin(target, j) :
                        j \in GreedyPositions(to_lowercase(query), tl, 1)}
    IN op = "highlight_matches"
           => /\ value = Bracketed(target, consumed, 1)
              /\ query # <<>> /\ fuzzy_match(query, target, FALSE).matched
                     => Len(value) = Len(target) + 2 * Len(query)

\* A thread holds the guards of at most one provider.
OneLockAtATime == \A t \in Threads : Cardinality(threads[t].holds) <= 1

\* No two threads are inside operations of the same provider.
NoOverlap ==
    \A t, u \in Threads : t # u => threads[t].holds \cap threads[u].holds = {}

\* Whenever a call is in progress, some thread inside a call can step.
NoDeadlock ==
    (\E t \in Threads : threads[t].pc # "idle")
        => \E t \in Threads : ENABLED Proceed(t)

\* C28: under any interleaving of search_all and execute calls of several
\* threads on one PluginManager, a thread holds at most one provider's lock
\* at a time, operations on the same provider never overlap, no deadlock is
\* reachable and every call returns.
C28_LocksOneAtATime ==
    /\ [](OneLockAtATime /\ NoOverlap /\ NoDeadlock)
    /\ \A t \in Threads : (threads[t].pc # "idle") ~> (threads[t].pc = "idle")

\* A thread waits for the provider that another thread is inside.
C28_Witness ==
    \E t, u \in Threads :
        /\ threads[t].pc = "held"
        /\ threads[u].pc = "lock"
        /\ threads[u].i \in threads[t].holds
        /\ threads[t].call = "execute"
        /\ threads[u].call = "search_all"

\* The history of the clipboard plugin.
History == provider[1].history

\* C29: after any sequence of add_entry and refresh calls the history of
\* the clipboard plugin holds at most max_history entries, newest first,
\* none with empty text and no two adjacent ones with the same text; an
\* add_entry either changes nothing or puts its entry in front of the
\* entries it keeps, and add_entry with the text of the newest entry
\* changes nothing.
C29_ClipboardHistory ==
    /\ [](/\ Len(History) <= max_history
          /\ \A k \in Indices(History) : History[k].text # <<>>
          /\ \A k \in 1..(Len(History) - 1) :
                /\ History[k].text # History[k + 1].text
                /\ History[k].timestamp >= History[k + 1].timestamp)
    /\ [][op' = "add_entry"
            => /\ \/ History' = History
                  \/ /\ History'[1].text = query'
                     /\ Tail(History')
                            = Truncate(History, max_history - 1)
               /\ History # <<>> /\ History[1].text = query'
                      => History' = History]_vars

\* The history is full and an add_entry has pushed the oldest entry out.
C29_Witness ==
    /\ op = "add_entry"
    /\ Len(History) = max_history
    /\ History[max_history].timestamp > 1
    /\ History[1].text = query

\* C30: in every state of the global WindowManager that threads calling
\* set_window_handle, show_window, hide_window, minimize_window,
\* toggle_window and close_window reach, no handle implies Hidden.  Stated
\* for the states in which every call has returned, where it asks least.
C30_NoHandleImpliesHidden ==
    (\A t \in Threads : wmCalls[t].pc = "idle")
        => (~window_handle.some => visibility = "Hidden")

====
